---- MODULE Spec2Model ----
(***************************************************************************)
(* Verification model of the background pipeline of digefx-monitor-api:    *)
(*   - the in-process EventBus        (src/background/event_system.py)     *)
(*   - the SerialManager protocol engine                                   *)
(*                                    (src/background/serial_manager.py,   *)
(*                                     src/background/serial_wrapper.py)   *)
(*   - the DetectionHandler pipeline: candidates, batches, worker pool    *)
(*     and alerts      (src/background/handlers/detection_handler.py,     *)
(*                      src/background/handlers/database_handler.py)      *)
(*   - the NewVideoHandler prefilter and the StatusHandler loops           *)
(*                     (src/background/handlers/new_video_handler.py,      *)
(*                      src/background/handlers/status_handler.py)         *)
(* Each subsystem has its own specifications (SpecBus, SpecSerial,         *)
(* SpecBatch, SpecPool, SpecAlert, ...) over the shared variable tuple;    *)
(* the variables of the other subsystems stay at their initial value.      *)
(***************************************************************************)
EXTENDS Integers, Sequences, FiniteSets, TLC

(***************************************************************************)
(* Bounds of the model.                                                    *)
(***************************************************************************)
\* number of publish() calls explored
MaxEvents == 3
\* subscriptions held by the registry at a time, over all event types
MaxSubs == 2
\* stand-in for EventBus._max_history (the source sets 1000 at
\* event_system.py:84); scaled down so that eviction is reached
max_history == 2

(***************************************************************************)
(* SerialManager: src/background/serial_manager.py, serial_wrapper.py      *)
(***************************************************************************)
\* bounds of the serial model
\* send_command / send_command_sync calls explored
MaxCommands == 2
\* stand-in for the maxsize of SerialManager._response_queue (the source sets
\* 100 at serial_manager.py:49); scaled down so that a full queue is reached
response_queue_maxsize == 2
\* last clock value explored (seconds since construction)
MaxTime == 4
\* seconds after opening during which boot garbage is filtered
boot_grace_period == 3

\* received text is a tuple of characters, so that ==, startswith and strip
\* are computed as str computes them
S_ACK == <<"A", "C", "K">>
S_ESP32_READY == <<"E", "S", "P", "3", "2", "_", "R", "E", "A", "D", "Y">>
S_HEARTBEAT_TIMEOUT == <<"H", "E", "A", "R", "T", "B", "E", "A", "T", "_", "T", "I", "M", "E", "O", "U", "T">>
S_DEVICE_ID == <<"D", "E", "V", "I", "C", "E", "_", "I", "D", ":">>
S_DEBUG == <<"D", "E", "B", "U", "G", ":">>
S_BANNER == <<"=", "=", "=">>
S_ESP32_DIGEFX == <<"E", "S", "P", "3", "2", " ", "D", "I", "G", "E", "F", "X">>

MessageType ==
    {"STATUS_DATA", "ACK", "ESP32_READY", "HEARTBEAT_TIMEOUT", "DEBUG", "UNKNOWN"}

\* str.startswith
startswith(s, p) == Len(p) <= Len(s) /\ SubSeq(s, 1, Len(p)) = p

\* str.strip(): leading and trailing whitespace removed
Whitespace == {" ", "\t", "\r", "\n"}
RECURSIVE lstrip(_)
lstrip(s) == IF s # <<>> /\ Head(s) \in Whitespace THEN lstrip(Tail(s)) ELSE s
RECURSIVE rstrip(_)
rstrip(s) ==
    IF s # <<>> /\ s[Len(s)] \in Whitespace THEN rstrip(SubSeq(s, 1, Len(s) - 1)) ELSE s
strip(s) == rstrip(lstrip(s))

\* SerialManager._identify_message_type
identify_message_type_by_prefix(message) ==
    IF startswith(message, S_ACK) THEN "ACK"
    ELSE IF startswith(message, S_ESP32_READY) THEN "ESP32_READY"
    ELSE IF startswith(message, S_HEARTBEAT_TIMEOUT) THEN "HEARTBEAT_TIMEOUT"
    ELSE IF startswith(message, S_DEVICE_ID) THEN "STATUS_DATA"
    ELSE IF startswith(message, S_DEBUG) THEN "DEBUG"
    ELSE "UNKNOWN"
identify_message_type(message) ==
    IF message = S_ACK THEN "ACK"
    ELSE IF message = S_ESP32_READY THEN "ESP32_READY"
    ELSE IF message = S_HEARTBEAT_TIMEOUT THEN "HEARTBEAT_TIMEOUT"
    ELSE IF startswith(message, S_DEVICE_ID) THEN "STATUS_DATA"
    ELSE IF startswith(message, S_DEBUG) THEN "DEBUG"
    ELSE "UNKNOWN"

\* the allow-list of _process_received_message
valid_starts ==
    {S_DEVICE_ID, S_ACK, S_ESP32_READY, S_HEARTBEAT_TIMEOUT, S_DEBUG, S_BANNER,
     S_ESP32_DIGEFX}
is_valid(message) == \E start \in valid_starts : startswith(message, start)

\* SerialManager._process_received_message: the boot-garbage filter, then
\* classification and a non-blocking put (queue.Full drops the new message).
\* Gives the new response queue and what became of the message.
\* _process_received_message with a put that makes room by discarding the
\* oldest queued message
process_received_message_drop_oldest(queue, message, t, until) ==
    IF t < until /\ ~is_valid(message)
    THEN [queue |-> queue, outcome |-> "filtered"]
    ELSE IF Len(queue) >= response_queue_maxsize
    THEN [queue |-> Append(Tail(queue), [type |-> identify_message_type(message),
                                         data |-> message]),
          outcome |-> "queued"]
    ELSE [queue |-> Append(queue, [type |-> identify_message_type(message),
                                   data |-> message]),
          outcome |-> "queued"]
process_received_message_no_filter(queue, message, t, until) ==
    IF Len(queue) >= response_queue_maxsize
    THEN [queue |-> queue, outcome |-> "full"]
    ELSE [queue |-> Append(queue, [type |-> identify_message_type(message),
                                   data |-> message]),
          outcome |-> "queued"]
process_received_message(queue, message, t, until) ==
    IF t < until /\ ~is_valid(message)
    THEN [queue |-> queue, outcome |-> "filtered"]
    ELSE IF Len(queue) >= response_queue_maxsize
    THEN [queue |-> queue, outcome |-> "full"]
    ELSE [queue |-> Append(queue, [type |-> identify_message_type(message),
                                   data |-> message]),
          outcome |-> "queued"]

\* SerialManager._initialize_serial: an open handle is kept; else the port is
\* opened, which succeeds when the device is there, and the grace deadline set
initialize_serial(ser, dev, t, until) ==
    IF ser = "open" THEN [ok |-> TRUE, serial |-> ser, until |-> until]
    ELSE IF dev = "ok"
    THEN [ok |-> TRUE, serial |-> "open", until |-> t + boot_grace_period]
    ELSE [ok |-> FALSE, serial |-> "none", until |-> until]

\* SerialManager._send_command_internal: False when there is no open handle;
\* otherwise write and flush, and True whatever write() returned (the wrapper
\* swallows the OSError of a dead device and returns 0)
send_command_internal(ser, dev) ==
    IF ser # "open" THEN [ok |-> FALSE, status |-> "not_open"]
    ELSE IF dev = "ok" THEN [ok |-> TRUE, status |-> "written"]
    ELSE [ok |-> TRUE, status |-> "write_failed"]

\* state of the EventBus
VARIABLES
    subscribers,     \* EventBus._subscribers : EventType -> list of handlers
    event_history,   \* EventBus._event_history : list of event dicts
    published,       \* number of publish() calls made so far (event ids 1..published)
    pubs,            \* per event id: the frame of its publish() call and its tasks
    completed        \* the publish() call that finished last, and how (observer)

busVars == <<subscribers, event_history, published, pubs, completed>>

\* the threads that call send_command_sync (status timer, heartbeat timer)
Callers == {"status", "heartbeat"}

VARIABLES
    running,               \* SerialManager._running
    serial,                \* _serial: "none" (None), "open", "closed" (is_open False)
    device,                \* the device node: "ok" or "failed" (environment)
    now,                   \* time.time(), in seconds
    ignore_garbage_until,  \* SerialManager._ignore_garbage_until
    command_queue,         \* _command_queue: ids of the queued commands
    response_queue,        \* _response_queue: classified messages
    callbacks,             \* _callbacks: MessageType -> list of callbacks
    rd,                    \* the SerialRead thread (_read_loop)
    wr,                    \* the SerialWrite thread (_write_loop)
    cbt,                   \* the SerialCallback thread (_callback_loop)
    stop_pc,               \* position of the thread that calls stop()
    start_result,          \* outcome of the last start(): "none", "started", "raised", "already"
    calls,                 \* per caller: its send_command_sync call
    cmds,                  \* per accepted command id: what became of it (observer)
    last_rx,               \* what the reader's last iteration handled (observer)
    sample                 \* a raw line and the type it was given (classification runs)

serialVars ==
    <<running, serial, device, now, ignore_garbage_until, command_queue,
      response_queue, callbacks, rd, wr, cbt, stop_pc, start_result, calls,
      cmds, last_rx, sample>>

NoMsg == [type |-> "none", data |-> <<>>]
\* line: the stripped line of the last iteration; outcome: "none" (nothing to
\* process), "filtered", "full" or "queued"; dropped: the line the boot filter
\* discarded last
NoRx == [line |-> <<>>, outcome |-> "none", dropped |-> <<>>]
NoSample == [raw |-> <<>>, line |-> <<>>, type |-> "none"]
\* pc: idle -> waiting -> woken -> returned; ev is the threading.Event (set
\* together with success[0]); ack_done observes that the dispatch of an ACK
\* message began and ended while this call was waiting.  cmd is the command the
\* call queued; shared and written observe the moment ack_callback first set
\* the event: the callers the same message had set already, and whether cmd
\* had gone through the transport by then
NoCall == [pc |-> "idle", ev |-> FALSE, got_ack |-> FALSE, result |-> FALSE,
           ack_done |-> FALSE, cmd |-> 0, shared |-> {}, written |-> FALSE]

InitManager ==
    /\ running = FALSE
    /\ serial = "none"
    /\ device = "ok"
    /\ now = 0
    /\ ignore_garbage_until = 0
    /\ command_queue = <<>>
    /\ response_queue = <<>>
    /\ callbacks = [t \in MessageType |-> <<>>]
    /\ rd = [pc |-> "idle"]
    /\ wr = [pc |-> "idle"]
    /\ cbt = [pc |-> "idle", msg |-> NoMsg, idx |-> 0, waiting |-> {},
              invoked |-> {}, called |-> {}, raised |-> FALSE]
    /\ stop_pc = "idle"
    /\ start_result = "none"
    /\ calls = [c \in Callers |-> NoCall]
    /\ cmds = <<>>
    /\ last_rx = NoRx

InitSerial == InitManager /\ sample = NoSample

(***************************************************************************)
(* DetectionHandler: src/background/handlers/detection_handler.py          *)
(***************************************************************************)
\* bounds of the detection model
\* frames of the videos explored
MaxFrames == 5
\* largest DETECTION_MAX_WORKERS explored
MaxWorkers == 3

Abs(x) == IF x < 0 THEN -x ELSE x
Max(a, b) == IF a > b THEN a ELSE b
Range(seq) == {seq[i] : i \in DOMAIN seq}

\* the candidate frames of process_video_parallel: range(total_frames)
\* filtered, in order, by "within 1.0 s of a detection timestamp".  A pose
\* hit is kept as its frame number h; its timestamp is h / fps (set by the
\* pre-filter, new_video_handler.py:95), so that
\*   abs(frame_idx / fps - h / fps) <= 1.0   iff   Abs(frame_idx - h) <= fps
candidate_frames_strict(total_frames, fps, hits) ==
    SelectSeq([k \in 1..total_frames |-> k - 1],
              LAMBDA frame_idx : \E h \in hits : Abs(frame_idx - h) < fps)
candidate_frames(total_frames, fps, hits) ==
    SelectSeq([k \in 1..total_frames |-> k - 1],
              LAMBDA frame_idx : \E h \in hits : Abs(frame_idx - h) <= fps)

\* batch_size = max(1, len(frame_indices) // max_workers)
batch_size(n, W) == Max(1, n \div W)

\* [frame_indices[i:i + batch_size] for i in range(0, n, batch_size)]
make_batches_whole_only(fi, W) ==
    LET n == Len(fi)
        bs == batch_size(n, W)
    IN  [k \in 1..(n \div bs) |-> SubSeq(fi, (k - 1) * bs + 1, k * bs)]
make_batches(fi, W) ==
    LET n == Len(fi)
        bs == batch_size(n, W)
    IN  [k \in 1..((n + bs - 1) \div bs) |->
            SubSeq(fi, (k - 1) * bs + 1, IF k * bs < n THEN k * bs ELSE n)]

VARIABLES
    video,          \* the video of the event: total_frames, fps, pose hits
    max_workers,    \* DetectionHandler.max_workers
    frame_indices,  \* process_video_parallel: the candidate frames
    batches,        \* process_video_parallel: the batches
    pvp             \* process_video_parallel: position and result

batchVars == <<video, max_workers, frame_indices, batches, pvp>>

\* the frames of the longest video, and the largest worker count, of the
\* worker-pool runs
PoolFrames == 4
PoolWorkers == 2

\* the model pool, the batch workers of the executor and the results gathered
\* from them, in completion order
VARIABLES model_pool, workers, batch_results
poolVars == <<model_pool, workers, batch_results>>

\* DETECTION_THRESHOLD_PERCENT, 0.1, as the fraction threshold_num / threshold_den
threshold_num == 1
threshold_den == 10
\* ALERT_COOLDOWN_HOURS counted in ticks of the clock `now`
alert_cooldown == 2
\* the evaluations of a run
MaxEvals == 3

\* CameraAlert rows (code, triggered_at) of the one camera, the AlertEvents
\* published, each handle_event coroutine's position in
\* generate_alerts_from_counts, and the last evaluation made
VARIABLES camera_alerts, alerts, gen, last_eval
alertVars == <<camera_alerts, alerts, gen, last_eval>>

\* NewVideoHandler: the escalation ratio 0.1 as escalation_num / escalation_den
escalation_num == 1
escalation_den == 10
\* polls of wait_for_file_complete before max_wait is over, the largest file
\* size seen by a poll, and the frames of the longest video scanned for poses
MaxPolls == 3
MaxSize == 2
MaxScan == 11

\* the members of the enumeration EventType
EventTypes ==
    {"camera_alert_detected", "camera_processing_started",
     "camera_processing_stopped", "camera_status_changed", "new_video_file"}

\* evaluating EventType.<name>: a member, or AttributeError
EventType_member(name) ==
    IF name \in EventTypes THEN [ok |-> TRUE, type |-> name]
    ELSE [ok |-> FALSE, type |-> "AttributeError"]

\* create_trigger_detection_event: the event of type
\* EventType.TRIGGER_DETECTION carrying the metadata of the video event
create_trigger_detection_event(video_event) ==
    LET t == EventType_member("trigger_detection")
    IN  IF t.ok
        THEN [ok |-> TRUE, type |-> t.type, detections |-> video_event.detections,
              camera |-> video_event.camera]
        ELSE [ok |-> FALSE, type |-> t.type, detections |-> {},
              camera |-> video_event.camera]

\* len(detections) / frame_count >= 0.1, for frame_count > 0
escalates(detections, frame_count) ==
    Cardinality(detections) * escalation_den >= escalation_num * frame_count

\* nv: the NewVideoHandler.handle_event call; registration: the outcome of
\* _register_handlers_in_event_bus; triggers: the TriggerDetectionEvents
\* published; detection_calls: the events DetectionHandler.handle_event got
VARIABLES nv, registration, triggers, detection_calls
prefVars == <<nv, registration, triggers, detection_calls>>

\* StatusHandler: iterations of the status loop and of the heartbeat loop
MaxStatusTicks == 3
MaxBeats == 4
\* max_failures of _heartbeat_loop
max_failures == 3

\* status snapshots: pc_online and application_running are always True and
\* the four cameras are alike, so internet_online and camera_1 tell them apart
Snapshots == [internet_online : BOOLEAN, camera_1 : BOOLEAN]

\* _status_changed without the comparison: every snapshot counts as new
status_changed_always(new_status, current) == TRUE

\* _status_changed
status_changed(new_status, current) == new_status # current

Bit(b) == IF b THEN 1 ELSE 0

\* the command built by _send_status_to_esp:
\* STATUS:PC:1,INTERNET:<b>,APP:1,CAM1:<b>,...
status_command(status) ==
    <<"STATUS", "PC", 1, "INTERNET", Bit(status.internet_online), "APP", 1,
      "CAM1", Bit(status.camera_1)>>

\* whether _send_heartbeat raises for the given result of the send: it logs
\* the failure and returns, and catches every exception itself
send_heartbeat_raises(success) == FALSE

\* current_status: the snapshot held by the handler; status_sent: the STATUS
\* commands given to send_command_sync; status_tick: the last iteration of
\* the status loop; heartbeat_failures: the counter of _heartbeat_loop;
\* beat: its last iteration; critical_logs: the critical warnings logged
VARIABLES current_status, status_sent, status_tick, heartbeat_failures, beat,
          critical_logs
statusVars == <<current_status, status_sent, status_tick, heartbeat_failures,
                beat, critical_logs>>

handlerVars == <<prefVars, statusVars>>

\* self.current_status after __init__
InitialStatus == [internet_online |-> FALSE, camera_1 |-> FALSE]
\* acked, acked_status: whether the peer has acknowledged a STATUS command
\* so far, and the snapshot of the last one it acknowledged
NoStatusTick == [n |-> 0, collected |-> InitialStatus, previous |-> InitialStatus,
                 sent |-> FALSE, acked |-> FALSE, acked_status |-> InitialStatus]
NoBeat == [n |-> 0, success |-> FALSE, failures_before |-> 0]

InitStatus ==
    /\ current_status = InitialStatus
    /\ status_sent = <<>>
    /\ status_tick = NoStatusTick
    /\ heartbeat_failures = 0
    /\ beat = NoBeat
    /\ critical_logs = 0


detVars == <<batchVars, poolVars, alertVars, handlerVars>>

\* pc: "idle" -> "waiting" -> "opening" -> "scanning" -> "returned"
NoNv == [pc |-> "idle", camera |-> "none", polls |-> 0, last_size |-> 0,
         stable |-> FALSE, opened |-> FALSE, frame_count |-> 0,
         detections |-> {}, result |-> "none"]
NoRegistration == [done |-> FALSE, raised |-> FALSE, subscribed |-> {}]

InitPrefilter ==
    /\ nv = NoNv
    /\ registration = NoRegistration
    /\ triggers = <<>>
    /\ detection_calls = <<>>


AlertCodes == {"NO_HELMET", "SMOKING"}
\* the handle_event coroutines of two video files processed at the same time
Coroutines == {1, 2}
NoGen == [pc |-> "idle", code |-> "none", detected_at |-> 0]
NoEval == [n |-> 0, code |-> "none", count |-> 0, total_frames |-> 0,
           at |-> 0, fired |-> FALSE]

\* percentage >= self.detection_threshold, excluding the threshold itself
meets_threshold_strict(count, total_frames) ==
    count * threshold_den > threshold_num * total_frames

\* percentage >= self.detection_threshold with percentage = count / total_frames
meets_threshold(count, total_frames) ==
    count * threshold_den >= threshold_num * total_frames

\* should_trigger_alert: no row of the camera and code with
\* triggered_at > utcnow() - cooldown
should_trigger_alert(rows, code, t) ==
    ~\E r \in rows : r.code = code /\ r.triggered_at > t - alert_cooldown

InitAlerts ==
    /\ camera_alerts = {}
    /\ alerts = <<>>
    /\ gen = [h \in Coroutines |-> NoGen]
    /\ last_eval = NoEval


\* model handles: the pre-warmed models are 1..max_workers
NoModel == 0
\* self.model, the model loaded by the constructor
MainModel == -1

\* what process_frame_batch returns when it gives up
EmptyResult == [frames_processed |-> 0, alert_counts |-> 0]

\* a submitted batch; alert_counts holds the count of one alert code
NewWorker ==
    [pc |-> "pending", model |-> NoModel, i |-> 0, frames_processed |-> 0,
     alert_counts |-> 0, failed |-> FALSE, result |-> EmptyResult]

\* the pool after _preload_models: one warmed-up model per worker
preloaded_pool(W) == [k \in 1..W |-> k]

\* get_thread_model: the first model of the pool, or the main model
get_thread_model(pool) ==
    IF pool # <<>> THEN [model |-> Head(pool), pool |-> Tail(pool)]
    ELSE [model |-> MainModel, pool |-> pool]

\* return_thread_model: back to the end of the pool, unless the main model
return_thread_model(pool, model) ==
    IF model # MainModel THEN Append(pool, model) ELSE pool

RECURSIVE SumFrames(_)
SumFrames(rs) ==
    IF rs = <<>> THEN 0 ELSE Head(rs).frames_processed + SumFrames(Tail(rs))

RECURSIVE SumCounts(_)
SumCounts(rs) ==
    IF rs = <<>> THEN 0 ELSE Head(rs).alert_counts + SumCounts(Tail(rs))

RECURSIVE FirstEmpty(_)
FirstEmpty(rs) ==
    IF rs = <<>> \/ Head(rs) = EmptyResult THEN 1 ELSE 1 + FirstEmpty(Tail(rs))

\* consolidation that stops at the first batch that gave nothing
consolidate_until_empty(rs) ==
    LET kept == SubSeq(rs, 1, FirstEmpty(rs) - 1)
    IN  [total_processed_frames |-> SumFrames(kept), count |-> SumCounts(kept)]

\* process_video_parallel: the consolidation of the batch results
consolidate(rs) ==
    [total_processed_frames |-> SumFrames(rs), count |-> SumCounts(rs)]


NoVideo == [total_frames |-> 0, fps |-> 1, hits |-> {}]
NoAggregate == [total_processed_frames |-> 0, count |-> 0]
\* pc: "start" -> "candidates" -> "batched" -> "running" -> "done", or
\* "returned" when process_video_parallel gives {} early
NoPvp == [pc |-> "start", aggregate |-> NoAggregate]

InitPipeline ==
    /\ frame_indices = <<>>
    /\ batches = <<>>
    /\ pvp = NoPvp
    /\ model_pool = preloaded_pool(max_workers)
    /\ workers = <<>>
    /\ batch_results = <<>>

InitDetection ==
    /\ video = NoVideo
    /\ max_workers = 1
    /\ InitPipeline
    /\ InitAlerts
    /\ InitPrefilter
    /\ InitStatus

(***************************************************************************)
(* EventBus: src/background/event_system.py                                *)
(***************************************************************************)
\* two of the EventType members are enough to tell "same type" from "other type"
EventType == {"camera_alert_detected", "new_video_file"}

\* handler callables and the event type each of them is registered for (as in
\* EventHandlerManager._register_handlers_in_event_bus, every handler serves
\* one type); asyncio.iscoroutinefunction(h) is fixed per handler
HandlersOf(t) ==
    IF t = "camera_alert_detected" THEN {"h_async", "h_sync"} ELSE {"h_video"}
iscoroutinefunction(h) == h # "h_sync"


\* frame of a publish() call.  pc: none -> gather -> done.
\* snapshot records the subscriber list as it was when publish() read it;
\* the frame of a finished call is empty, its outcome ("returned" or the
\* exception raised) goes to completed.
NoPub == [pc |-> "none", type |-> "none", snapshot |-> <<>>, tasks |-> <<>>]
Done == [pc |-> "done", type |-> "none", snapshot |-> <<>>, tasks |-> <<>>]

\* python: seq[-n:] for n >= 0 (note -0 == 0, so seq[-0:] is the whole list)
LastSlice(seq, n) ==
    IF n = 0 \/ n >= Len(seq) THEN seq
    ELSE SubSeq(seq, Len(seq) - n + 1, Len(seq))

\* list.remove(x): drops the first occurrence of x
RECURSIVE ListRemove(_, _)
ListRemove(seq, x) ==
    IF seq = <<>> THEN <<>>
    ELSE IF Head(seq) = x THEN Tail(seq)
    ELSE <<Head(seq)>> \o ListRemove(Tail(seq), x)

InList(seq, x) == \E i \in DOMAIN seq : seq[i] = x

\* EventBus._add_to_history: append, then keep the last _max_history entries
add_to_history_keep_oldest(hist, entry) ==
    LET h2 == Append(hist, entry)
    IN  IF Len(h2) > max_history THEN SubSeq(h2, 1, max_history) ELSE h2
add_to_history(hist, entry) ==
    LET h2 == Append(hist, entry)
    IN  IF Len(h2) > max_history THEN LastSlice(h2, max_history) ELSE h2

\* EventBus.get_event_history(limit)
get_event_history_oldest(limit) ==
    SubSeq(event_history, 1, IF limit < Len(event_history) THEN limit ELSE Len(event_history))
get_event_history(limit) == LastSlice(event_history, limit)

\* EventBus.get_subscriber_count(event_type)
get_subscriber_count(t) == Len(subscribers[t])

\* the loop of publish() that wraps every handler of the list in a task
CreateTasks(handlers) ==
    [i \in DOMAIN handlers |-> [handler |-> handlers[i], st |-> "pending"]]

\* asyncio.gather(*tasks, return_exceptions=True) completes when all are done
GatherFailFast(tasks) ==
    \/ \A i \in DOMAIN tasks : tasks[i].st \in {"ok", "exc"}
    \/ \E i \in DOMAIN tasks : tasks[i].st = "exc"
GatherDone(tasks) == \A i \in DOMAIN tasks : tasks[i].st \in {"ok", "exc"}

InFlight == {e \in DOMAIN pubs : pubs[e].pc = "gather"}

RECURSIVE SumLen(_, _)
SumLen(f, S) ==
    IF S = {} THEN 0
    ELSE LET t == CHOOSE x \in S : TRUE IN Len(f[t]) + SumLen(f, S \ {t})
\* number of subscriptions in the registry
Subscriptions == SumLen(subscribers, EventType)

\* EventBus.subscribe: append under the lock (no await inside: one step)
subscribe_live(t, h) ==
    /\ Subscriptions < MaxSubs
    /\ subscribers' = [subscribers EXCEPT ![t] = Append(@, h)]
    /\ pubs' = [e \in DOMAIN pubs |->
                  IF pubs[e].pc = "gather" /\ pubs[e].type = t
                  THEN [pubs[e] EXCEPT !.tasks = Append(@, [handler |-> h, st |-> "pending"])]
                  ELSE pubs[e]]
    /\ UNCHANGED <<event_history, published, completed, serialVars, detVars>>
subscribe(t, h) ==
    /\ Subscriptions < MaxSubs
    /\ subscribers' = [subscribers EXCEPT ![t] = Append(@, h)]
    /\ UNCHANGED <<event_history, published, pubs, completed, serialVars, detVars>>

\* EventBus.unsubscribe: list.remove under the lock; removing a handler that
\* is not in the list (ValueError, swallowed) changes nothing
unsubscribe(t, h) ==
    /\ InList(subscribers[t], h)
    /\ subscribers' = [subscribers EXCEPT ![t] = ListRemove(@, h)]
    /\ UNCHANGED <<event_history, published, pubs, completed, serialVars, detVars>>

\* publish() that creates the tasks of an event without recording it first
publish_unrecorded(t) ==
    /\ published < MaxEvents
    /\ subscribers[t] = <<>> \/ InFlight = {}
    /\ LET e == published + 1
           handlers == subscribers[t]
       IN  /\ published' = e
           /\ event_history' = IF handlers = <<>>
                                THEN add_to_history(event_history,
                                         [event_id |-> e, event_type |-> t])
                                ELSE event_history
           /\ pubs' = [pubs EXCEPT ![e] =
                 IF handlers = <<>>
                 THEN Done
                 ELSE [pc |-> "gather", type |-> t, snapshot |-> handlers,
                       tasks |-> CreateTasks(handlers)]]
           /\ completed' = IF handlers = <<>>
                           THEN [event_id |-> e, outcome |-> "returned"]
                           ELSE completed
    /\ UNCHANGED <<subscribers, serialVars, detVars>>
\* EventBus.publish up to its first suspension point: history append, read of
\* the subscriber list, early return when it is empty, else one task per handler.
\* The callers explored keep one publish() suspended in gather at a time; a
\* publish to a type without subscribers never suspends and may come any time.
publish(t) ==
    /\ published < MaxEvents
    /\ subscribers[t] = <<>> \/ InFlight = {}
    /\ LET e == published + 1
           handlers == subscribers[t]
       IN  /\ published' = e
           /\ event_history' = add_to_history(event_history,
                                   [event_id |-> e, event_type |-> t])
           /\ pubs' = [pubs EXCEPT ![e] =
                 IF handlers = <<>>
                 THEN Done
                 ELSE [pc |-> "gather", type |-> t, snapshot |-> handlers,
                       tasks |-> CreateTasks(handlers)]]
           /\ completed' = IF handlers = <<>>
                           THEN [event_id |-> e, outcome |-> "returned"]
                           ELSE completed
    /\ UNCHANGED <<subscribers, serialVars, detVars>>

\* _safe_call_handler starts running: the handler is invoked with the event
\* (a coroutine on the loop, a plain function through run_in_executor).  The
\* loop starts the tasks in the order create_task made them.
HandlerStart(e, i) ==
    /\ pubs[e].pc = "gather"
    /\ i \in DOMAIN pubs[e].tasks
    /\ pubs[e].tasks[i].st = "pending"
    /\ \A j \in 1..(i - 1) : pubs[e].tasks[j].st # "pending"
    /\ pubs' = [pubs EXCEPT ![e].tasks[i].st = "running"]
    /\ UNCHANGED <<subscribers, event_history, published, completed, serialVars, detVars>>

\* the handler returns, or raises and _safe_call_handler logs and re-raises;
\* either way only this task changes
HandlerFinishAborting(e, i, raised) ==
    /\ pubs[e].pc = "gather"
    /\ i \in DOMAIN pubs[e].tasks
    /\ pubs[e].tasks[i].st = "running"
    /\ LET done == [pubs[e].tasks EXCEPT ![i].st = IF raised THEN "exc" ELSE "ok"]
           NotPending(task) == task.st # "pending"
       IN  pubs' = [pubs EXCEPT ![e].tasks =
                      IF raised THEN SelectSeq(done, NotPending) ELSE done]
    /\ UNCHANGED <<subscribers, event_history, published, completed, serialVars, detVars>>
HandlerFinish(e, i, raised) ==
    /\ pubs[e].pc = "gather"
    /\ i \in DOMAIN pubs[e].tasks
    /\ pubs[e].tasks[i].st = "running"
    /\ pubs' = [pubs EXCEPT ![e].tasks[i].st = IF raised THEN "exc" ELSE "ok"]
    /\ UNCHANGED <<subscribers, event_history, published, completed, serialVars, detVars>>

\* publish() resumes after gather: the result log indexes the live subscriber
\* list (handlers[i].__name__), which raises IndexError when it has shrunk
PublishLog(e) ==
    /\ pubs[e].pc = "gather"
    /\ GatherDone(pubs[e].tasks)
    /\ pubs' = [pubs EXCEPT ![e] = Done]
    /\ completed' = [event_id |-> e,
                     outcome |-> IF Len(subscribers[pubs[e].type]) < Len(pubs[e].tasks)
                                 THEN "IndexError" ELSE "returned"]
    /\ UNCHANGED <<subscribers, event_history, published, serialVars, detVars>>

InitEventBus ==
    /\ subscribers = [t \in EventType |-> <<>>]
    /\ event_history = <<>>
    /\ published = 0
    /\ pubs = [e \in 1..(MaxEvents + 1) |-> NoPub]
    /\ completed = [event_id |-> 0, outcome |-> "none"]

InitBus == InitEventBus /\ InitSerial /\ InitDetection

NextBus ==
    \/ \E t \in EventType : \E h \in HandlersOf(t) : subscribe(t, h)
    \/ \E t \in EventType : \E h \in HandlersOf(t) : unsubscribe(t, h)
    \/ \E t \in EventType : publish(t)
    \/ \E e \in DOMAIN pubs, i \in 1..(MaxSubs + 1) : HandlerStart(e, i)
    \/ \E e \in DOMAIN pubs, i \in 1..(MaxSubs + 1), r \in BOOLEAN : HandlerFinish(e, i, r)
    \/ \E e \in DOMAIN pubs : PublishLog(e)

(***************************************************************************)
(* SerialManager: the threads and the public API                           *)
(***************************************************************************)
\* SerialManager.start on a running manager: logs a warning and returns
start_running ==
    /\ running
    /\ start_result' = "already"
    /\ UNCHANGED <<running, serial, device, now, ignore_garbage_until,
                   command_queue, response_queue, callbacks, rd, wr, cbt,
                   stop_pc, calls, cmds, last_rx, sample, busVars, detVars>>

\* start() that sets _running and starts the threads before it looks at the
\* result of _initialize_serial
start_ignoring_failure ==
    /\ ~running
    /\ stop_pc = "idle"
    /\ LET r == initialize_serial(serial, device, now, ignore_garbage_until) IN
        /\ serial' = r.serial
        /\ ignore_garbage_until' = r.until
        /\ start_result' = IF r.ok THEN "started" ELSE "raised"
    /\ running' = TRUE
    /\ rd' = [rd EXCEPT !.pc = "loop"]
    /\ wr' = [wr EXCEPT !.pc = "loop"]
    /\ cbt' = [cbt EXCEPT !.pc = "loop"]
    /\ UNCHANGED <<device, now, command_queue, response_queue, callbacks,
                   stop_pc, calls, cmds, last_rx, sample, busVars, detVars>>

\* SerialManager.start when not running: raises when the port cannot be
\* opened; else sets _running and starts the three threads.
\* One life cycle is explored: start() is not called again after stop().
start ==
    /\ ~running
    /\ stop_pc = "idle"
    /\ LET r == initialize_serial(serial, device, now, ignore_garbage_until) IN
        /\ serial' = r.serial
        /\ ignore_garbage_until' = r.until
        /\ IF r.ok
           THEN /\ running' = TRUE
                /\ rd' = [rd EXCEPT !.pc = "loop"]
                /\ wr' = [wr EXCEPT !.pc = "loop"]
                /\ cbt' = [cbt EXCEPT !.pc = "loop"]
                /\ start_result' = "started"
           ELSE /\ start_result' = "raised"
                /\ UNCHANGED <<running, rd, wr, cbt>>
    /\ UNCHANGED <<device, now, command_queue, response_queue, callbacks,
                   stop_pc, calls, cmds, last_rx, sample, busVars, detVars>>

\* SerialManager.stop, first half: _running = False, then the joins begin
StopBegin ==
    /\ running
    /\ stop_pc = "idle"
    /\ running' = FALSE
    /\ stop_pc' = "join"
    /\ UNCHANGED <<serial, device, now, ignore_garbage_until, command_queue,
                   response_queue, callbacks, rd, wr, cbt, start_result, calls,
                   cmds, last_rx, sample, busVars, detVars>>

\* SerialManager.stop, second half: each join(timeout=2) has returned, because
\* the thread ended or because the two seconds passed; the handle is closed
StopClose ==
    /\ stop_pc = "join"
    /\ serial' = IF serial = "open" THEN "closed" ELSE serial
    /\ stop_pc' = "done"
    /\ UNCHANGED <<running, device, now, ignore_garbage_until, command_queue,
                   response_queue, callbacks, rd, wr, cbt, start_result, calls,
                   cmds, last_rx, sample, busVars, detVars>>

\* the environment: the device node goes away (unplugged) and comes back
DeviceFail ==
    /\ device = "ok"
    /\ device' = "failed"
    /\ UNCHANGED <<running, serial, now, ignore_garbage_until, command_queue,
                   response_queue, callbacks, rd, wr, cbt, stop_pc, start_result,
                   calls, cmds, last_rx, sample, busVars, detVars>>

DeviceRecover ==
    /\ device = "failed"
    /\ device' = "ok"
    /\ UNCHANGED <<running, serial, now, ignore_garbage_until, command_queue,
                   response_queue, callbacks, rd, wr, cbt, stop_pc, start_result,
                   calls, cmds, last_rx, sample, busVars, detVars>>

\* time.time() advances by a second
Tick ==
    /\ now < MaxTime
    /\ now' = now + 1
    /\ UNCHANGED <<running, serial, device, ignore_garbage_until, command_queue,
                   response_queue, callbacks, rd, wr, cbt, stop_pc, start_result,
                   calls, cmds, last_rx, sample, busVars, detVars>>

\* _read_loop: the test of `while self._running`
ReaderWhile ==
    /\ rd.pc = "loop"
    /\ rd' = [rd EXCEPT !.pc = IF running THEN "body" ELSE "exit"]
    /\ UNCHANGED <<running, serial, device, now, ignore_garbage_until,
                   command_queue, response_queue, callbacks, wr, cbt, stop_pc,
                   start_result, calls, cmds, last_rx, sample, busVars, detVars>>

\* _read_loop: one iteration of the body.  No open handle: _reconnect_serial
\* drops the handle and sleeps.  Otherwise in_waiting and read() are called;
\* SerialFileDescriptor swallows every OSError (in_waiting gives 0, read gives
\* b''), so a dead device looks like "no data".  raw is the text up to the next
\* newline, <<>> when nothing arrived; a non-empty stripped line is processed.
ReaderIter(raw) ==
    /\ rd.pc = "body"
    /\ IF serial # "open"
       THEN /\ serial' = "none"
            /\ rd' = [rd EXCEPT !.pc = "reconnect"]
            /\ last_rx' = [last_rx EXCEPT !.line = <<>>, !.outcome = "none"]
            /\ UNCHANGED response_queue
       ELSE IF device # "ok" \/ strip(raw) = <<>>
       THEN /\ rd' = [rd EXCEPT !.pc = "loop"]
            /\ last_rx' = [last_rx EXCEPT !.line = <<>>, !.outcome = "none"]
            /\ UNCHANGED <<serial, response_queue>>
       ELSE LET line == strip(raw)
                r == process_received_message(response_queue, line, now,
                                              ignore_garbage_until)
            IN  /\ response_queue' = r.queue
                /\ last_rx' = [line |-> line, outcome |-> r.outcome,
                               dropped |-> IF r.outcome = "filtered" THEN line
                                           ELSE last_rx.dropped]
                /\ rd' = [rd EXCEPT !.pc = "loop"]
                /\ UNCHANGED serial
    /\ UNCHANGED <<running, device, now, ignore_garbage_until, command_queue,
                   callbacks, wr, cbt, stop_pc, start_result, calls, cmds,
                   sample, busVars, detVars>>

\* _reconnect_serial that tries again until the port opens
ReaderReconnect_until_open ==
    /\ rd.pc = "reconnect"
    /\ LET r == initialize_serial(serial, device, now, ignore_garbage_until) IN
        /\ serial' = r.serial
        /\ ignore_garbage_until' = r.until
        /\ rd' = [rd EXCEPT !.pc = IF r.ok THEN "loop" ELSE "reconnect"]
    /\ UNCHANGED <<running, device, now, command_queue, response_queue,
                   callbacks, wr, cbt, stop_pc, start_result, calls, cmds,
                   last_rx, sample, busVars, detVars>>

\* _reconnect_serial after its sleep: _initialize_serial, result ignored
ReaderReconnect ==
    /\ rd.pc = "reconnect"
    /\ LET r == initialize_serial(serial, device, now, ignore_garbage_until) IN
        /\ serial' = r.serial
        /\ ignore_garbage_until' = r.until
    /\ rd' = [rd EXCEPT !.pc = "loop"]
    /\ UNCHANGED <<running, device, now, command_queue, response_queue,
                   callbacks, wr, cbt, stop_pc, start_result, calls, cmds,
                   last_rx, sample, busVars, detVars>>

\* _write_loop: the test of `while self._running`
WriterWhile ==
    /\ wr.pc = "loop"
    /\ wr' = [wr EXCEPT !.pc = IF running THEN "body" ELSE "exit"]
    /\ UNCHANGED <<running, serial, device, now, ignore_garbage_until,
                   command_queue, response_queue, callbacks, rd, cbt, stop_pc,
                   start_result, calls, cmds, last_rx, sample, busVars, detVars>>

\* _write_loop: one iteration of the body.  queue.Empty after the timeout goes
\* round the loop; else the command is taken off the queue and handed to
\* _send_command_internal, whatever the state of the handle
WriterGet ==
    /\ wr.pc = "body"
    /\ IF command_queue = <<>>
       THEN UNCHANGED <<command_queue, cmds>>
       ELSE LET id == Head(command_queue)
                r == send_command_internal(serial, device)
            IN  /\ command_queue' = Tail(command_queue)
                /\ cmds' = [cmds EXCEPT ![id].status = r.status, ![id].ok = r.ok]
    /\ wr' = [wr EXCEPT !.pc = "loop"]
    /\ UNCHANGED <<running, serial, device, now, ignore_garbage_until,
                   response_queue, callbacks, rd, cbt, stop_pc, start_result,
                   calls, last_rx, sample, busVars, detVars>>

\* what send_command records about a command it accepts
NewCommand ==
    [down |-> serial # "open" \/ device # "ok", status |-> "queued", ok |-> FALSE]

\* SerialManager.send_command: an unbounded queue.put, at any time
send_command ==
    /\ Len(cmds) < MaxCommands
    /\ command_queue' = Append(command_queue, Len(cmds) + 1)
    /\ cmds' = Append(cmds, NewCommand)
    /\ UNCHANGED <<running, serial, device, now, ignore_garbage_until,
                   response_queue, callbacks, rd, wr, cbt, stop_pc, start_result,
                   calls, last_rx, sample, busVars, detVars>>

\* _callback_loop: the test of `while self._running`
CallbackWhile ==
    /\ cbt.pc = "loop"
    /\ cbt' = [cbt EXCEPT !.pc = IF running THEN "body" ELSE "exit"]
    /\ UNCHANGED <<running, serial, device, now, ignore_garbage_until,
                   command_queue, response_queue, callbacks, rd, wr, stop_pc,
                   start_result, calls, cmds, last_rx, sample, busVars, detVars>>

\* _callback_loop: _response_queue.get(timeout=0.5); queue.Empty goes round the
\* loop, else the for loop over the callbacks of the message's type begins.
\* waiting notes the send_command_sync calls blocked in wait() at this moment.
\* invoked and called note, for the message in hand, the callers whose
\* event it set and the callbacks it has run; raised, that one of them raised.
CallbackGet ==
    /\ cbt.pc = "body"
    /\ IF response_queue = <<>>
       THEN /\ cbt' = [cbt EXCEPT !.pc = "loop"]
            /\ UNCHANGED response_queue
       ELSE /\ response_queue' = Tail(response_queue)
            /\ cbt' = [pc |-> "dispatch", msg |-> Head(response_queue), idx |-> 1,
                       waiting |-> IF Head(response_queue).type = "ACK"
                                   THEN {c \in Callers : calls[c].pc = "waiting"}
                                   ELSE {},
                       invoked |-> {}, called |-> {}, raised |-> FALSE]
    /\ UNCHANGED <<running, serial, device, now, ignore_garbage_until,
                   command_queue, callbacks, rd, wr, stop_pc, start_result,
                   calls, cmds, last_rx, sample, busVars, detVars>>

\* _callback_loop: one step of `for callback in callbacks`.  The list iterator
\* keeps an index into the live list: it yields callbacks[idx] while idx is
\* within the list as it is now, and ends otherwise.  The callbacks in the
\* model are the ack_callback closures of send_command_sync, named by caller:
\* success[0] = True and ack_received.set().
CallbackDispatch ==
    /\ cbt.pc = "dispatch"
    /\ LET list == callbacks[cbt.msg.type] IN
       IF cbt.idx <= Len(list)
       THEN LET c == list[cbt.idx]
                first == ~calls[c].ev
            IN
            /\ calls' = [calls EXCEPT ![c].ev = TRUE,
                                      ![c].ack_done = @ \/ calls[c].pc = "waiting",
                                      ![c].shared = IF first THEN cbt.invoked ELSE @,
                                      ![c].written =
                                          IF first
                                          THEN cmds[calls[c].cmd].status = "written"
                                          ELSE @]
            /\ cbt' = [cbt EXCEPT !.idx = @ + 1,
                                  !.invoked = IF first THEN @ \cup {c} ELSE @,
                                  !.called = @ \cup {c}]
       ELSE /\ calls' = [c \in Callers |->
                           IF c \in cbt.waiting /\ calls[c].pc = "waiting"
                           THEN [calls[c] EXCEPT !.ack_done = TRUE]
                           ELSE calls[c]]
            /\ cbt' = [pc |-> "loop", msg |-> NoMsg, idx |-> 0, waiting |-> {},
                       invoked |-> {}, called |-> {}, raised |-> FALSE]
    /\ UNCHANGED <<running, serial, device, now, ignore_garbage_until,
                   command_queue, response_queue, callbacks, rd, wr, stop_pc,
                   start_result, cmds, last_rx, sample, busVars, detVars>>

\* send_command_sync(cmd, wait_for_ack=True): register_callback(ACK,
\* ack_callback) and send_command(cmd); the call then blocks in wait(timeout).
\* A message being dispatched already was not dequeued during this call.
SyncCall(c) ==
    /\ calls[c].pc \in {"idle", "returned"}
    /\ Len(cmds) < MaxCommands
    /\ callbacks' = [callbacks EXCEPT !["ACK"] = Append(@, c)]
    /\ command_queue' = Append(command_queue, Len(cmds) + 1)
    /\ cmds' = Append(cmds, NewCommand)
    /\ calls' = [d \in Callers |->
                    IF d = c
                    THEN [NoCall EXCEPT !.pc = "waiting", !.cmd = Len(cmds) + 1]
                    ELSE [calls[d] EXCEPT !.shared = @ \ {c}]]
    /\ cbt' = [cbt EXCEPT !.waiting = @ \ {c}, !.invoked = @ \ {c},
                          !.called = @ \ {c}]
    /\ UNCHANGED <<running, serial, device, now, ignore_garbage_until,
                   response_queue, rd, wr, stop_pc, start_result, last_rx,
                   sample, busVars, detVars>>

\* ack_received.wait(timeout) returns True: the event was set
SyncWake(c) ==
    /\ calls[c].pc = "waiting"
    /\ calls[c].ev
    /\ calls' = [calls EXCEPT ![c].pc = "woken", ![c].got_ack = TRUE]
    /\ UNCHANGED <<running, serial, device, now, ignore_garbage_until,
                   command_queue, response_queue, callbacks, rd, wr, cbt,
                   stop_pc, start_result, cmds, last_rx, sample, busVars, detVars>>

\* ack_received.wait(timeout) returns False: the timeout elapsed first
SyncTimeout(c) ==
    /\ calls[c].pc = "waiting"
    /\ ~calls[c].ev
    /\ calls' = [calls EXCEPT ![c].pc = "woken", ![c].got_ack = FALSE]
    /\ UNCHANGED <<running, serial, device, now, ignore_garbage_until,
                   command_queue, response_queue, callbacks, rd, wr, cbt,
                   stop_pc, start_result, cmds, last_rx, sample, busVars, detVars>>

\* the return of send_command_sync that unregisters the callback only when
\* the wait ended with an ACK
SyncReturn_after_ack_only(c) ==
    /\ calls[c].pc = "woken"
    /\ callbacks' = [callbacks EXCEPT !["ACK"] =
                        IF calls[c].got_ack /\ InList(@, c)
                        THEN ListRemove(@, c) ELSE @]
    /\ calls' = [calls EXCEPT ![c].pc = "returned",
                              ![c].result = calls[c].got_ack /\ calls[c].ev]
    /\ UNCHANGED <<running, serial, device, now, ignore_garbage_until,
                   command_queue, response_queue, rd, wr, cbt, stop_pc,
                   start_result, cmds, last_rx, sample, busVars, detVars>>
\* unregister_callback(ACK, ack_callback); return got_ack and success[0]
SyncReturn(c) ==
    /\ calls[c].pc = "woken"
    /\ callbacks' = [callbacks EXCEPT !["ACK"] =
                        IF InList(@, c) THEN ListRemove(@, c) ELSE @]
    /\ calls' = [calls EXCEPT ![c].pc = "returned",
                              ![c].result = calls[c].got_ack /\ calls[c].ev]
    /\ UNCHANGED <<running, serial, device, now, ignore_garbage_until,
                   command_queue, response_queue, rd, wr, cbt, stop_pc,
                   start_result, cmds, last_rx, sample, busVars, detVars>>

\* The steps of stop() and of the writer one statement at a time, for the runs
\* that look at how the transitions of the handle interleave.  No statement
\* of serial_manager.py acquires _serial_lock, so nothing orders these steps.
\* SerialManager.stop: the joins have returned (each thread ended, or its two
\* seconds passed), and `if self._serial and self._serial.is_open` is tested
StopTest ==
    /\ stop_pc = "join"
    /\ stop_pc' = IF serial = "open" THEN "closing" ELSE "done"
    /\ UNCHANGED <<running, serial, device, now, ignore_garbage_until,
                   command_queue, response_queue, callbacks, rd, wr, cbt,
                   start_result, calls, cmds, last_rx, sample, busVars, detVars>>

\* SerialManager.stop: self._serial.close()
StopCloseHandle ==
    /\ stop_pc = "closing"
    /\ serial' = IF serial = "open" THEN "closed" ELSE serial
    /\ stop_pc' = "done"
    /\ UNCHANGED <<running, device, now, ignore_garbage_until, command_queue,
                   response_queue, callbacks, rd, wr, cbt, start_result, calls,
                   cmds, last_rx, sample, busVars, detVars>>

\* _write_loop: _command_queue.get(timeout=0.5); id is the command in hand
WriterTake ==
    /\ wr.pc = "body"
    /\ IF command_queue = <<>>
       THEN /\ wr' = [wr EXCEPT !.pc = "loop"]
            /\ UNCHANGED command_queue
       ELSE /\ wr' = [pc |-> "test", id |-> Head(command_queue)]
            /\ command_queue' = Tail(command_queue)
    /\ UNCHANGED <<running, serial, device, now, ignore_garbage_until,
                   response_queue, callbacks, rd, cbt, stop_pc, start_result,
                   calls, cmds, last_rx, sample, busVars, detVars>>

\* _send_command_internal: `if not self._serial or not self._serial.is_open`
WriterTest ==
    /\ wr.pc = "test"
    /\ IF serial # "open"
       THEN /\ cmds' = [cmds EXCEPT ![wr.id].status = "not_open",
                                    ![wr.id].ok = FALSE]
            /\ wr' = [pc |-> "loop"]
       ELSE /\ wr' = [wr EXCEPT !.pc = "write"]
            /\ UNCHANGED cmds
    /\ UNCHANGED <<running, serial, device, now, ignore_garbage_until,
                   command_queue, response_queue, callbacks, rd, cbt, stop_pc,
                   start_result, calls, last_rx, sample, busVars, detVars>>

\* self._serial.write(...) on the handle as it is by now: no handle gives an
\* AttributeError, caught, and False; a closed handle makes the wrapper's
\* write return 0, and True is returned; else as _send_command_internal
write_unguarded(ser, dev) ==
    IF ser = "none" THEN [ok |-> FALSE, status |-> "raised"]
    ELSE IF ser = "closed" THEN [ok |-> TRUE, status |-> "write_failed"]
    ELSE send_command_internal(ser, dev)

\* _send_command_internal: the write and the flush, then the callback
WriterWrite ==
    /\ wr.pc = "write"
    /\ LET r == write_unguarded(serial, device) IN
        cmds' = [cmds EXCEPT ![wr.id].status = r.status, ![wr.id].ok = r.ok]
    /\ wr' = [pc |-> "loop"]
    /\ UNCHANGED <<running, serial, device, now, ignore_garbage_until,
                   command_queue, response_queue, callbacks, rd, cbt, stop_pc,
                   start_result, calls, last_rx, sample, busVars, detVars>>

\* what arrives between two newlines in the runs of the transport (<<>>: no
\* data), and in the runs of the acknowledgement path
LinesSerial == {<<>>, S_ACK \o <<"\r">>, <<"x">>}
LinesAck == {<<>>, S_ACK \o <<"\r">>}

NextSerial ==
    \/ start
    \/ start_running
    \/ StopBegin
    \/ StopClose
    \/ DeviceFail
    \/ DeviceRecover
    \/ ReaderWhile
    \/ \E raw \in LinesSerial : ReaderIter(raw)
    \/ ReaderReconnect
    \/ WriterWhile
    \/ WriterGet
    \/ send_command
    \/ CallbackWhile
    \/ CallbackGet
    \/ CallbackDispatch

NextGrace ==
    \/ start
    \/ StopBegin
    \/ StopClose
    \/ Tick
    \/ ReaderWhile
    \/ \E raw \in LinesSerial : ReaderIter(raw)
    \/ ReaderReconnect
    \/ CallbackWhile
    \/ CallbackGet
    \/ CallbackDispatch

NextTransport ==
    \/ start
    \/ StopBegin
    \/ StopTest
    \/ StopCloseHandle
    \/ DeviceFail
    \/ DeviceRecover
    \/ ReaderWhile
    \/ \E raw \in LinesSerial : ReaderIter(raw)
    \/ ReaderReconnect
    \/ WriterWhile
    \/ WriterTake
    \/ WriterTest
    \/ WriterWrite
    \/ send_command

NextAck ==
    \/ start
    \/ ReaderWhile
    \/ \E raw \in LinesAck : ReaderIter(raw)
    \/ WriterWhile
    \/ WriterGet
    \/ CallbackWhile
    \/ CallbackGet
    \/ CallbackDispatch
    \/ \E c \in Callers : SyncCall(c)
    \/ \E c \in Callers : SyncWake(c)
    \/ \E c \in Callers : SyncTimeout(c)
    \/ \E c \in Callers : SyncReturn(c)

\* the commands of the writer runs, as text: without a newline, with one,
\* with two, and the empty command
Commands == {<<"S">>, <<"S", "\n">>, <<"S", "\n", "\n">>, <<>>}

\* _send_command_internal that appends the newline to every command
with_newline_always(command) == Append(command, "\n")

\* _send_command_internal: `if not command.endswith('\n'): command += '\n'`
with_newline(command) ==
    IF command # <<>> /\ command[Len(command)] = "\n" THEN command
    ELSE Append(command, "\n")

\* SerialManager.send_command(command, callback): the text and whether a
\* callback was given go into the queue entry.  bytes is what the writer
\* handed to write(), invocations counts the calls of the callback, order is
\* the position of the command among those the writer has taken
send_command_text(command, has_callback) ==
    /\ Len(cmds) < MaxCommands
    /\ command_queue' = Append(command_queue, Len(cmds) + 1)
    /\ cmds' = Append(cmds, [down |-> NewCommand.down, status |-> "queued",
                             ok |-> FALSE, text |-> command,
                             callback |-> has_callback, bytes |-> <<>>,
                             invocations |-> 0, order |-> 0])
    /\ UNCHANGED <<running, serial, device, now, ignore_garbage_until,
                   response_queue, callbacks, rd, wr, cbt, stop_pc, start_result,
                   calls, last_rx, sample, busVars, detVars>>

Taken == {i \in DOMAIN cmds : cmds[i].status # "queued"}

\* _write_loop: one iteration of the body with the text of the command: the
\* head of the queue is taken, the newline is appended if absent, the bytes
\* go to write() when there is an open handle, and the callback, if one was
\* given, is called with the result
WriterSend ==
    /\ wr.pc = "body"
    /\ IF command_queue = <<>>
       THEN UNCHANGED <<command_queue, cmds>>
       ELSE LET id == Head(command_queue)
                r == send_command_internal(serial, device)
            IN  /\ command_queue' = Tail(command_queue)
                /\ cmds' = [cmds EXCEPT
                      ![id].status = r.status,
                      ![id].ok = r.ok,
                      ![id].bytes = IF r.status = "not_open" THEN <<>>
                                    ELSE with_newline(cmds[id].text),
                      ![id].invocations = IF cmds[id].callback THEN @ + 1 ELSE @,
                      ![id].order = Cardinality(Taken) + 1]
    /\ wr' = [wr EXCEPT !.pc = "loop"]
    /\ UNCHANGED <<running, serial, device, now, ignore_garbage_until,
                   response_queue, callbacks, rd, cbt, stop_pc, start_result,
                   calls, last_rx, sample, busVars, detVars>>

NextWriter ==
    \/ start
    \/ StopBegin
    \/ StopClose
    \/ DeviceFail
    \/ DeviceRecover
    \/ WriterWhile
    \/ WriterSend
    \/ \E command \in Commands : \E has_callback \in BOOLEAN :
         send_command_text(command, has_callback)

\* the callbacks other than ack_callback that a user of the manager registers
\* (serial_monitor registers its handlers at start-up and never removes them)
Permanent == {"handle_debug_message", "handle_debug_copy"}

\* SerialManager.register_callback: appended unless it is in the list
register_callback(msg_type, callback) ==
    /\ ~InList(callbacks[msg_type], callback)
    /\ callbacks' = [callbacks EXCEPT ![msg_type] = Append(@, callback)]
    /\ UNCHANGED <<running, serial, device, now, ignore_garbage_until,
                   command_queue, response_queue, rd, wr, cbt, stop_pc,
                   start_result, calls, cmds, last_rx, sample, busVars, detVars>>

\* _callback_loop: one step of `for callback in callbacks` over callbacks
\* that are not ack_callbacks: the callback returns or raises; the except
\* clause inside the loop logs the exception and the loop goes on
CallbackDispatchPermanent(raises) ==
    /\ cbt.pc = "dispatch"
    /\ cbt.msg.type # "ACK"
    /\ LET list == callbacks[cbt.msg.type] IN
       IF cbt.idx <= Len(list)
       THEN cbt' = [cbt EXCEPT !.idx = @ + 1,
                               !.called = @ \cup {list[cbt.idx]},
                               !.raised = @ \/ raises]
       ELSE cbt' = [pc |-> "loop", msg |-> NoMsg, idx |-> 0, waiting |-> {},
                    invoked |-> {}, called |-> {}, raised |-> FALSE]
    /\ UNCHANGED <<running, serial, device, now, ignore_garbage_until,
                   command_queue, response_queue, callbacks, rd, wr, stop_pc,
                   start_result, calls, cmds, last_rx, sample, busVars, detVars>>

LinesDispatch == {<<>>, S_ACK \o <<"\r">>, S_DEBUG \o <<"\r">>}

\* the dispatch of ACK and DEBUG messages to temporary and permanent callbacks
NextDispatch ==
    \/ start
    \/ \E cb \in Permanent : register_callback("DEBUG", cb)
    \/ ReaderWhile
    \/ \E raw \in LinesDispatch : ReaderIter(raw)
    \/ CallbackWhile
    \/ CallbackGet
    \/ cbt.msg.type = "ACK" /\ CallbackDispatch
    \/ \E raises \in BOOLEAN : CallbackDispatchPermanent(raises)
    \/ \E c \in Callers : SyncCall(c)
    \/ \E c \in Callers : SyncWake(c)
    \/ \E c \in Callers : SyncTimeout(c)
    \/ \E c \in Callers : SyncReturn(c)

\* the acknowledgement path without the write thread: the commands of the
\* calls stay in the command queue, the callbacks come and go
NextSync ==
    \/ start
    \/ ReaderWhile
    \/ \E raw \in LinesAck : ReaderIter(raw)
    \/ CallbackWhile
    \/ CallbackGet
    \/ CallbackDispatch
    \/ \E c \in Callers : SyncCall(c)
    \/ \E c \in Callers : SyncWake(c)
    \/ \E c \in Callers : SyncTimeout(c)
    \/ \E c \in Callers : SyncReturn(c)

\* the commands sent in the runs of the shutdown
MaxStopCommands == 1

\* what arrives between two newlines in the runs of the shutdown
LinesStop == {<<>>, S_DEBUG \o <<"\r">>}

\* the steps of the three threads, each taken as one action
ReaderStep ==
    \/ ReaderWhile
    \/ \E raw \in LinesStop : ReaderIter(raw)
    \/ ReaderReconnect
WriterStep == WriterWhile \/ WriterGet
CallbackStep ==
    \/ CallbackWhile
    \/ CallbackGet
    \/ CallbackDispatchPermanent(FALSE)

\* one life cycle of the manager with its three threads, permanent
\* callbacks, commands and a device that comes and goes
NextStop ==
    \/ start
    \/ StopBegin
    \/ StopClose
    \/ DeviceFail
    \/ DeviceRecover
    \/ register_callback("DEBUG", "handle_debug_message")
    \/ ReaderStep
    \/ WriterStep
    \/ Len(cmds) < MaxStopCommands /\ send_command
    \/ CallbackStep

\* raw lines for the classification runs: a lead, a head and a tail
ClassifyLeads == {<<>>, <<" ">>, <<"x">>}
ClassifyHeads ==
    {<<>>, S_ACK, S_ESP32_READY, S_HEARTBEAT_TIMEOUT, S_DEVICE_ID, S_DEBUG,
     <<"D", "E", "B", "U", "G">>, <<"a", "c", "k">>}
ClassifyTails == {<<>>, <<"1">>, <<" ">>, <<"\r">>, <<":", "x">>}
ClassifyLines ==
    {a \o b \o c : a \in ClassifyLeads, b \in ClassifyHeads, c \in ClassifyTails}

\* what _read_loop does with the text before a newline: strip it, skip it when
\* empty, else _process_received_message gives it _identify_message_type
Classify ==
    /\ sample.type = "none"
    /\ LET line == strip(sample.raw) IN
       sample' = [raw |-> sample.raw, line |-> line,
                  type |-> IF line = <<>> THEN "skipped"
                           ELSE identify_message_type(line)]
    /\ UNCHANGED <<running, serial, device, now, ignore_garbage_until,
                   command_queue, response_queue, callbacks, rd, wr, cbt,
                   stop_pc, start_result, calls, cmds, last_rx, busVars, detVars>>

InitClassify ==
    /\ InitEventBus
    /\ InitManager
    /\ InitDetection
    /\ sample \in {[raw |-> l, line |-> <<>>, type |-> "none"] : l \in ClassifyLines}

NextClassify == Classify

(***************************************************************************)
(* DetectionHandler: candidates and batches                                *)
(***************************************************************************)
\* process_video_parallel up to the candidate list.  {} is returned at once
\* without pose hits, and by the except clause when the video cannot be
\* opened or has no frames (the percentage logged at line 199 divides by
\* total_frames).
BuildCandidates(opened) ==
    /\ pvp.pc = "start"
    /\ IF video.hits = {} \/ ~opened \/ video.total_frames = 0
       THEN /\ pvp' = [pvp EXCEPT !.pc = "returned"]
            /\ UNCHANGED frame_indices
       ELSE /\ frame_indices' =
                  candidate_frames(video.total_frames, video.fps, video.hits)
            /\ pvp' = [pvp EXCEPT !.pc = "candidates"]
    /\ UNCHANGED <<video, max_workers, batches, poolVars, alertVars, handlerVars, busVars,
                   serialVars>>

\* process_video_parallel: the split into batches
MakeBatches ==
    /\ pvp.pc = "candidates"
    /\ batches' = make_batches(frame_indices, max_workers)
    /\ pvp' = [pvp EXCEPT !.pc = "batched"]
    /\ UNCHANGED <<video, max_workers, frame_indices, poolVars, alertVars, handlerVars, busVars,
                   serialVars>>

\* the 1000-frame video at 10 fps with pose hits at frames 100, 500 and 900
ScenarioB == [total_frames |-> 1000, fps |-> 10, hits |-> {100, 500, 900}]

\* the videos of the batching runs: every short video with every set of pose
\* hits, at 1 and 2 fps, and ScenarioB
BatchVideos ==
    {v \in [total_frames : 0..MaxFrames, fps : {1, 2},
            hits : SUBSET (0..(MaxFrames - 1))] :
        v.hits \subseteq 0..(v.total_frames - 1)}
    \cup {ScenarioB}

InitBatch ==
    /\ InitEventBus
    /\ InitSerial
    /\ InitAlerts
    /\ InitPrefilter
    /\ InitStatus
    /\ video \in BatchVideos
    /\ max_workers \in 1..MaxWorkers
    /\ InitPipeline

NextBatch ==
    \/ \E opened \in BOOLEAN : BuildCandidates(opened)
    \/ MakeBatches

(***************************************************************************)
(* DetectionHandler: the worker pool                                       *)
(***************************************************************************)
\* process_video_parallel: one future per batch is handed to the executor
SubmitBatches ==
    /\ pvp.pc = "batched"
    /\ workers' = [b \in DOMAIN batches |-> NewWorker]
    /\ batch_results' = <<>>
    /\ pvp' = [pvp EXCEPT !.pc = "running"]
    /\ UNCHANGED <<video, max_workers, frame_indices, batches, model_pool,
                   alertVars, handlerVars, busVars, serialVars>>

Running == {b \in DOMAIN workers : workers[b].pc = "frames"}

\* process_frame_batch up to the frame loop, on a free executor thread: a
\* model is checked out; when the video cannot be opened the empty result is
\* returned at once, the model still in hand.
WorkerStart(b, opened) ==
    /\ pvp.pc = "running"
    /\ b \in DOMAIN workers
    /\ workers[b].pc = "pending"
    /\ Cardinality(Running) < max_workers
    /\ LET got == get_thread_model(model_pool)
       IN  /\ model_pool' = got.pool
           /\ IF opened
              THEN /\ workers' = [workers EXCEPT ![b].pc = "frames",
                                                 ![b].model = got.model]
                   /\ UNCHANGED batch_results
              ELSE /\ workers' = [workers EXCEPT ![b].pc = "done",
                                                 ![b].model = got.model,
                                                 ![b].result = EmptyResult]
                   /\ batch_results' = Append(batch_results, EmptyResult)
    /\ UNCHANGED <<batchVars, alertVars, handlerVars, busVars, serialVars>>

\* one pass of the frame loop: the frame cannot be read (skipped), is
\* processed without or with the alert condition, or an exception is raised:
\* the except clause returns the model and the empty result.
WorkerFrame(b, outcome) ==
    /\ pvp.pc = "running"
    /\ b \in DOMAIN workers
    /\ workers[b].pc = "frames"
    /\ workers[b].i < Len(batches[b])
    /\ CASE outcome = "unreadable" ->
              /\ workers' = [workers EXCEPT ![b].i = @ + 1]
              /\ UNCHANGED <<model_pool, batch_results>>
         [] outcome = "clean" ->
              /\ workers' = [workers EXCEPT ![b].i = @ + 1,
                                            ![b].frames_processed = @ + 1]
              /\ UNCHANGED <<model_pool, batch_results>>
         [] outcome = "alert" ->
              /\ workers' = [workers EXCEPT ![b].i = @ + 1,
                                            ![b].frames_processed = @ + 1,
                                            ![b].alert_counts = @ + 1]
              /\ UNCHANGED <<model_pool, batch_results>>
         [] outcome = "exception" ->
              /\ model_pool' = return_thread_model(model_pool, workers[b].model)
              /\ workers' = [workers EXCEPT ![b].pc = "done",
                                            ![b].model = NoModel,
                                            ![b].failed = TRUE,
                                            ![b].result = EmptyResult]
              /\ batch_results' = Append(batch_results, EmptyResult)
    /\ UNCHANGED <<batchVars, alertVars, handlerVars, busVars, serialVars>>

\* process_frame_batch after the last frame: the model goes back to the pool
\* and the counts are returned
WorkerFinish(b) ==
    /\ pvp.pc = "running"
    /\ b \in DOMAIN workers
    /\ workers[b].pc = "frames"
    /\ workers[b].i = Len(batches[b])
    /\ LET result == [frames_processed |-> workers[b].frames_processed,
                      alert_counts |-> workers[b].alert_counts]
       IN  /\ model_pool' = return_thread_model(model_pool, workers[b].model)
           /\ workers' = [workers EXCEPT ![b].pc = "done",
                                         ![b].model = NoModel,
                                         ![b].result = result]
           /\ batch_results' = Append(batch_results, result)
    /\ UNCHANGED <<batchVars, alertVars, handlerVars, busVars, serialVars>>

\* process_video_parallel once every future has completed
Consolidate ==
    /\ pvp.pc = "running"
    /\ Len(batch_results) = Len(batches)
    /\ pvp' = [pc |-> "consolidated", aggregate |-> consolidate(batch_results)]
    /\ UNCHANGED <<video, max_workers, frame_indices, batches, poolVars,
                   alertVars, handlerVars, busVars, serialVars>>

FrameOutcomes == {"unreadable", "clean", "alert", "exception"}

\* the videos of the worker-pool runs: every frame is a candidate
PoolVideos ==
    {[total_frames |-> n, fps |-> 1, hits |-> 0..(n - 1)] : n \in 1..PoolFrames}

InitPool ==
    /\ InitEventBus
    /\ InitSerial
    /\ InitAlerts
    /\ InitPrefilter
    /\ InitStatus
    /\ video \in PoolVideos
    /\ max_workers \in 1..PoolWorkers
    /\ InitPipeline

\* the pools a video can find when its batches start: of the max_workers
\* models of _preload_thread_models, those whose load succeeded
\* (_load_and_warm_model logs the error and adds nothing) and that no batch of
\* another video being processed at the same time has checked out
available_pools(W) == {SubSeq(preloaded_pool(W), 1, k) : k \in 0..W}

InitShared ==
    /\ InitEventBus
    /\ InitSerial
    /\ InitAlerts
    /\ InitPrefilter
    /\ InitStatus
    /\ video \in PoolVideos
    /\ max_workers \in 1..PoolWorkers
    /\ frame_indices = <<>>
    /\ batches = <<>>
    /\ pvp = NoPvp
    /\ model_pool \in available_pools(max_workers)
    /\ workers = <<>>
    /\ batch_results = <<>>

NextPool ==
    \/ BuildCandidates(TRUE)
    \/ MakeBatches
    \/ SubmitBatches
    \/ \E b \in 1..PoolFrames : \E opened \in BOOLEAN : WorkerStart(b, opened)
    \/ \E b \in 1..PoolFrames : \E outcome \in FrameOutcomes : WorkerFrame(b, outcome)
    \/ \E b \in 1..PoolFrames : WorkerFinish(b)
    \/ Consolidate

(***************************************************************************)
(* DetectionHandler: alerts                                                *)
(***************************************************************************)
\* generate_alerts_from_counts of coroutine h for a video whose counts hold
\* `count` frames of `code` out of `total_frames` processed frames, up to the
\* await of event_bus.publish in create_and_publish_alert: nothing without
\* processed frames or below the threshold; otherwise the cooldown query, the
\* AlertEvent stamped utcnow() with the percentage as confidence, and its
\* publication.  The subscribers of the alert run once the coroutine yields.
GenerateAlerts(h, code, count, total_frames) ==
    /\ gen[h].pc = "idle"
    /\ last_eval.n < MaxEvals
    /\ count <= total_frames
    /\ LET trigger == /\ total_frames # 0
                      /\ meets_threshold(count, total_frames)
                      /\ should_trigger_alert(camera_alerts, code, now)
           alert == [code |-> code, detected_at |-> now,
                     confidence |-> <<count, total_frames>>]
       IN  /\ IF trigger
              THEN /\ alerts' = Append(alerts, alert)
                   /\ gen' = [gen EXCEPT ![h] = [pc |-> "publishing",
                                                  code |-> code,
                                                  detected_at |-> now]]
              ELSE UNCHANGED <<alerts, gen>>
           /\ last_eval' = [n |-> last_eval.n + 1, code |-> code,
                            count |-> count, total_frames |-> total_frames,
                            at |-> now, fired |-> trigger]
    /\ UNCHANGED <<camera_alerts, batchVars, poolVars, handlerVars, busVars, serialVars>>

\* DatabaseHandler.handle_event, run by the publish of coroutine h: the
\* CameraAlert row with triggered_at = event.detected_at is committed (the
\* camera and the alert type exist), publish returns and the coroutine ends
DatabaseSave(h) ==
    /\ gen[h].pc = "publishing"
    /\ camera_alerts' = camera_alerts \cup
           {[code |-> gen[h].code, triggered_at |-> gen[h].detected_at]}
    /\ gen' = [gen EXCEPT ![h] = NoGen]
    /\ UNCHANGED <<alerts, last_eval, batchVars, poolVars, handlerVars, busVars, serialVars>>

\* the processed-frame totals and the counts of the evaluated videos
AlertTotals == {0, 9, 10, 11}
AlertCounts == 0..1

InitAlert ==
    /\ InitEventBus
    /\ InitSerial
    /\ InitDetection

NextAlert ==
    \/ \E h \in Coroutines : \E code \in AlertCodes :
         \E count \in AlertCounts : \E total_frames \in AlertTotals :
           GenerateAlerts(h, code, count, total_frames)
    \/ \E h \in Coroutines : DatabaseSave(h)
    \/ Tick

(***************************************************************************)
(* NewVideoHandler: src/background/handlers/new_video_handler.py           *)
(***************************************************************************)
\* one subscription of _register_handlers_in_event_bus: the event type is
\* looked up in EventType first
subscribe_handler(reg, name, handler) ==
    IF reg.raised THEN reg
    ELSE IF EventType_member(name).ok
         THEN [reg EXCEPT !.subscribed = @ \cup {<<name, handler>>}]
         ELSE [reg EXCEPT !.raised = TRUE]

\* _register_handlers_in_event_bus with the database, new_video and detection
\* handlers; an exception ends it (and is logged by the background manager)
register_handlers_in_event_bus ==
    /\ ~registration.done
    /\ registration' =
          [subscribe_handler(
              subscribe_handler(
                  subscribe_handler(registration, "camera_alert_detected", "database"),
                  "new_video_file", "new_video"),
              "trigger_detection", "detection")
           EXCEPT !.done = TRUE]
    /\ UNCHANGED <<nv, triggers, detection_calls, batchVars, poolVars, alertVars, statusVars,
                   busVars, serialVars>>

\* handle_event, lines 61-71: the bus delivers a NEW_VIDEO_FILE event; the
\* parent directory names an active camera, an inactive one or none
NewVideoLookup(camera) ==
    /\ nv.pc = "idle"
    /\ <<"new_video_file", "new_video">> \in registration.subscribed
    /\ nv' = IF camera = "active"
             THEN [nv EXCEPT !.pc = "waiting", !.camera = camera]
             ELSE [nv EXCEPT !.pc = "returned", !.camera = camera,
                             !.result = "ignored"]
    /\ UNCHANGED <<registration, triggers, detection_calls, batchVars, poolVars,
                   alertVars, statusVars, busVars, serialVars>>

\* one pass of the loop of wait_for_file_complete: the file is missing, or
\* has the size `size`; the same non-zero size twice in a row ends the wait
WaitPoll(exists, size) ==
    /\ nv.pc = "waiting"
    /\ nv.polls < MaxPolls
    /\ nv' = IF ~exists
             THEN [nv EXCEPT !.polls = @ + 1]
             ELSE IF size > 0 /\ size = nv.last_size
                  THEN [nv EXCEPT !.pc = "opening", !.stable = TRUE]
                  ELSE [nv EXCEPT !.polls = @ + 1, !.last_size = size]
    /\ UNCHANGED <<registration, triggers, detection_calls, batchVars, poolVars,
                   alertVars, statusVars, busVars, serialVars>>

\* wait_for_file_complete gives up after max_wait: handle_event returns False
WaitTimeout ==
    /\ nv.pc = "waiting"
    /\ nv.polls = MaxPolls
    /\ nv' = [nv EXCEPT !.pc = "returned", !.result = "not_complete"]
    /\ UNCHANGED <<registration, triggers, detection_calls, batchVars, poolVars,
                   alertVars, statusVars, busVars, serialVars>>

\* lines 80-87: the video is opened, or the exception is caught at line 120
OpenVideo(opened) ==
    /\ nv.pc = "opening"
    /\ nv' = IF opened
             THEN [nv EXCEPT !.pc = "scanning", !.opened = TRUE]
             ELSE [nv EXCEPT !.pc = "returned", !.result = "error"]
    /\ UNCHANGED <<registration, triggers, detection_calls, batchVars, poolVars,
                   alertVars, statusVars, busVars, serialVars>>

\* one frame read and passed to detect_person_in_frame
ReadFrame(person) ==
    /\ nv.pc = "scanning"
    /\ nv.frame_count < MaxScan
    /\ nv' = [nv EXCEPT !.frame_count = @ + 1,
                        !.detections = IF person THEN @ \cup {nv.frame_count}
                                       ELSE @]
    /\ UNCHANGED <<registration, triggers, detection_calls, batchVars, poolVars,
                   alertVars, statusVars, busVars, serialVars>>

\* the end of the scan without the frame-count and ratio tests: the hits are
\* published whatever their number
EndOfVideo_unfiltered ==
    /\ nv.pc = "scanning"
    /\ nv' = [nv EXCEPT !.pc = "returned", !.result = "escalated"]
    /\ triggers' = Append(triggers, [ok |-> TRUE, type |-> "trigger_detection",
                                      detections |-> nv.detections,
                                      camera |-> nv.camera])
    /\ UNCHANGED <<detection_calls, registration, batchVars, poolVars, alertVars, statusVars,
                   busVars, serialVars>>

\* lines 91-122 once cap.read() fails: the ratio test (ZeroDivisionError
\* without frames), the trigger event and its publication to the subscribers
\* of its type; any exception makes handle_event return False
EndOfVideo ==
    /\ nv.pc = "scanning"
    /\ LET trigger_event == create_trigger_detection_event(nv)
       IN  IF nv.frame_count = 0
           THEN /\ nv' = [nv EXCEPT !.pc = "returned", !.result = "error"]
                /\ UNCHANGED <<triggers, detection_calls>>
           ELSE IF ~escalates(nv.detections, nv.frame_count)
           THEN /\ nv' = [nv EXCEPT !.pc = "returned", !.result = "dropped"]
                /\ UNCHANGED <<triggers, detection_calls>>
           ELSE IF ~trigger_event.ok
           THEN /\ nv' = [nv EXCEPT !.pc = "returned", !.result = "error"]
                /\ UNCHANGED <<triggers, detection_calls>>
           ELSE /\ nv' = [nv EXCEPT !.pc = "returned", !.result = "escalated"]
                /\ triggers' = Append(triggers, trigger_event)
                /\ detection_calls' =
                      IF <<trigger_event.type, "detection">> \in registration.subscribed
                      THEN Append(detection_calls, trigger_event)
                      ELSE detection_calls
    /\ UNCHANGED <<registration, batchVars, poolVars, alertVars, statusVars, busVars,
                   serialVars>>

PrefilterCameras == {"active", "inactive", "unknown"}

InitPrefilterRun ==
    /\ InitEventBus
    /\ InitSerial
    /\ InitDetection

NextPrefilter ==
    \/ register_handlers_in_event_bus
    \/ \E camera \in PrefilterCameras : NewVideoLookup(camera)
    \/ \E exists \in BOOLEAN : \E size \in 0..MaxSize : WaitPoll(exists, size)
    \/ WaitTimeout
    \/ \E opened \in BOOLEAN : OpenVideo(opened)
    \/ \E person \in BOOLEAN : ReadFrame(person)
    \/ EndOfVideo

(***************************************************************************)
(* StatusHandler: src/background/handlers/status_handler.py                *)
(***************************************************************************)
\* one iteration of _monitoring_loop: the status is collected (the last
\* known one when collecting fails); when it differs from current_status it
\* replaces it and the STATUS command is given to send_command_sync, whose
\* result `success` is only logged
MonitoringIteration(status, collect_fails, success) ==
    /\ status_tick.n < MaxStatusTicks
    /\ LET collected == IF collect_fails THEN current_status ELSE status
           changed == status_changed(collected, current_status)
       IN  /\ current_status' = IF changed THEN collected ELSE current_status
           /\ status_sent' = IF changed
                             THEN Append(status_sent, status_command(collected))
                             ELSE status_sent
           /\ status_tick' = [n |-> status_tick.n + 1, collected |-> collected,
                              previous |-> status_tick.collected,
                              sent |-> changed,
                              acked |-> status_tick.acked \/ (changed /\ success),
                              acked_status |-> IF changed /\ success
                                               THEN collected
                                               ELSE status_tick.acked_status]
    /\ UNCHANGED <<heartbeat_failures, beat, critical_logs, prefVars, batchVars,
                   poolVars, alertVars, busVars, serialVars>>

\* one iteration of _heartbeat_loop: _send_heartbeat with the result
\* `success` of send_command_sync, then the reset of the counter, or the
\* except clause when _send_heartbeat raises
HeartbeatIteration(success) ==
    /\ beat.n < MaxBeats
    /\ beat' = [n |-> beat.n + 1, success |-> success,
                failures_before |-> heartbeat_failures]
    /\ IF ~send_heartbeat_raises(success)
       THEN /\ heartbeat_failures' = 0
            /\ UNCHANGED critical_logs
       ELSE IF heartbeat_failures + 1 >= max_failures
       THEN /\ heartbeat_failures' = 0
            /\ critical_logs' = critical_logs + 1
       ELSE /\ heartbeat_failures' = heartbeat_failures + 1
            /\ UNCHANGED critical_logs
    /\ UNCHANGED <<current_status, status_sent, status_tick, prefVars, batchVars,
                   poolVars, alertVars, busVars, serialVars>>

InitStatusRun ==
    /\ InitEventBus
    /\ InitSerial
    /\ InitDetection

NextStatus ==
    \/ \E status \in Snapshots : \E collect_fails, success \in BOOLEAN :
         MonitoringIteration(status, collect_fails, success)
    \/ \E success \in BOOLEAN : HeartbeatIteration(success)

vars == <<busVars, serialVars, detVars>>

SpecBus == InitBus /\ [][NextBus]_vars

SpecSerial == InitBus /\ [][NextSerial]_vars

SpecGrace == InitBus /\ [][NextGrace]_vars

SpecAck == InitBus /\ [][NextAck]_vars

SpecSync == InitBus /\ [][NextSync]_vars

SpecDispatch == InitBus /\ [][NextDispatch]_vars

SpecWriter == InitBus /\ [][NextWriter]_vars

SpecTransport == InitBus /\ [][NextTransport]_vars
\* The three loops are threads of the interpreter: a thread that can take a
\* step is scheduled in the end, and each step ends by itself (sleep(0.01),
\* sleep(2), get(timeout=0.5), a non-blocking read, a callback that returns),
\* hence weak fairness of the steps of each thread.  Nothing is assumed of
\* the device or of the callers.
SpecStop ==
    /\ InitBus
    /\ [][NextStop]_vars
    /\ WF_vars(ReaderStep)
    /\ WF_vars(WriterStep)
    /\ WF_vars(CallbackStep)

SpecClassify == InitClassify /\ [][NextClassify]_vars

SpecBatch == InitBatch /\ [][NextBatch]_vars

SpecPool == InitPool /\ [][NextPool]_vars

SpecShared == InitShared /\ [][NextPool]_vars

SpecAlert == InitAlert /\ [][NextAlert]_vars

SpecPrefilter == InitPrefilterRun /\ [][NextPrefilter]_vars

SpecStatus == InitStatusRun /\ [][NextStatus]_vars

(***************************************************************************)
(* EventBus properties                                                     *)
(***************************************************************************)
Min(a, b) == IF a < b THEN a ELSE b
Count(seq, x) == Cardinality({i \in DOMAIN seq : seq[i] = x})
TaskHandlers(f) == [i \in DOMAIN f.tasks |-> f.tasks[i].handler]
\* number of times handler h has been invoked for the event of frame f
Invocations(f, h) ==
    Cardinality({i \in DOMAIN f.tasks :
                    f.tasks[i].handler = h /\ f.tasks[i].st \in {"running", "ok", "exc"}})
\* the step in which the publish() call of event e completes
Completes(e) == pubs[e].pc = "gather" /\ pubs'[e].pc = "done"
\* the newest entry of the history
Newest(hist) == hist[Len(hist)]

\* C1: with N >= 1 subscriptions on type T, publish(e) of type T invokes every
\* subscribed handler exactly once per subscription by the time it completes
\* (never more while it is in flight), whichever subset of the handlers raise.
C1_EachHandlerInvokedOnce ==
    /\ [](\A e \in InFlight : \A h \in HandlersOf(pubs[e].type) :
             Invocations(pubs[e], h) <= Count(pubs[e].snapshot, h))
    /\ [][\A e \in DOMAIN pubs : Completes(e) =>
             /\ pubs[e].snapshot # <<>>
             /\ \A h \in HandlersOf(pubs[e].type) :
                   Invocations(pubs[e], h) = Count(pubs[e].snapshot, h)]_vars

\* two handlers were subscribed, both were invoked, one raised and one returned
C1_Witness ==
    \E e \in InFlight :
        /\ Len(pubs[e].snapshot) = 2
        /\ GatherDone(pubs[e].tasks)
        /\ \E i, j \in DOMAIN pubs[e].tasks :
              pubs[e].tasks[i].st = "exc" /\ pubs[e].tasks[j].st = "ok"

\* C2: publish(e) completes only after every handler invoked for e has
\* returned or raised, no handler's task is dropped because a sibling raised,
\* and publish raises only the IndexError of a shrunken subscriber list, never
\* because a handler raised.
C2_PublishWaitsAndIsolates ==
    /\ [](\A e \in InFlight : Len(pubs[e].tasks) = Len(pubs[e].snapshot))
    /\ [][\A e \in DOMAIN pubs : Completes(e) =>
             /\ \A i \in DOMAIN pubs[e].tasks : pubs[e].tasks[i].st \in {"ok", "exc"}
             /\ completed'.event_id = e
             /\ completed'.outcome # "returned" =>
                   /\ completed'.outcome = "IndexError"
                   /\ Len(subscribers[pubs[e].type]) < Len(pubs[e].snapshot)
             /\ Len(subscribers[pubs[e].type]) >= Len(pubs[e].snapshot) =>
                   completed'.outcome = "returned"]_vars

\* every handler of the event has raised, the subscriber list is as it was
\* when publish() read it, and gather is complete: the call returns normally
C2_Witness ==
    \E e \in InFlight :
        /\ Len(pubs[e].tasks) = 2
        /\ \A i \in DOMAIN pubs[e].tasks : pubs[e].tasks[i].st = "exc"
        /\ subscribers[pubs[e].type] = pubs[e].snapshot

\* C3: publish(e) for a type with zero subscribers returns without raising
\* in the same step, creates no handler task and leaves every other call's
\* tasks alone, and get_event_history(1) is exactly <<e>>.
C3_NoSubscribers ==
    [][(published' = published + 1
          /\ subscribers[Newest(event_history').event_type] = <<>>) =>
         /\ completed' = [event_id |-> published', outcome |-> "returned"]
         /\ pubs'[published'] = Done
         /\ \A e \in DOMAIN pubs : e # published' => pubs'[e] = pubs[e]
         /\ Newest(event_history').event_id = published'
         /\ get_event_history(1)' = <<Newest(event_history')>>]_vars

\* an event of a type without subscribers was published after older events,
\* while the other type does have a subscriber
C3_Witness ==
    /\ published >= 2
    /\ completed = [event_id |-> published, outcome |-> "returned"]
    /\ Len(event_history) >= 2
    /\ subscribers[Newest(event_history).event_type] = <<>>
    /\ \E t \in EventType : subscribers[t] # <<>>
    /\ get_event_history(1) = <<Newest(event_history)>>

\* C4: the history never exceeds max_history and always holds the most
\* recent min(k, max_history) of the k published events (event ids 1..k in
\* publish order), oldest first.
C4_HistoryBounded ==
    LET m == Min(published, max_history)
    IN  /\ Len(event_history) <= max_history
        /\ Len(event_history) = m
        /\ \A i \in 1..m : event_history[i].event_id = published - m + i

\* more events than the bound were published: the oldest ones were evicted
C4_Witness ==
    /\ published > max_history
    /\ Len(event_history) = max_history
    /\ event_history[1].event_id = published - max_history + 1

\* C5: the handlers invoked for an in-flight event are those of the list as
\* publish() read it, whatever is subscribed afterwards; and each publish()
\* dispatches to the whole list as it is at that moment, so a handler
\* subscribed during an earlier publish receives the next event of its type.
C5_LateSubscriber ==
    /\ [](\A e \in InFlight : TaskHandlers(pubs[e]) = pubs[e].snapshot)
    /\ [][\A e \in DOMAIN pubs : (pubs[e].pc = "none" /\ pubs'[e].pc = "gather") =>
             /\ pubs'[e].snapshot = subscribers[pubs'[e].type]
             /\ TaskHandlers(pubs'[e]) = subscribers[pubs'[e].type]]_vars

\* a handler was subscribed while the event was in flight: the live list is
\* longer than the list publish() read, and all tasks of the event are done
C5_Witness ==
    \E e \in InFlight :
        /\ GatherDone(pubs[e].tasks)
        /\ Len(subscribers[pubs[e].type]) > Len(pubs[e].snapshot)
        /\ SubSeq(subscribers[pubs[e].type], 1, Len(pubs[e].snapshot)) = pubs[e].snapshot

(***************************************************************************)
(* SerialManager: properties                                               *)
(***************************************************************************)
\* C6: send_command_sync(cmd, wait_for_ack=True, timeout) returns True if an
\* ACK was classified and dispatched to the callbacks while the call was
\* waiting (before its timeout elapsed), and False if none was: for every call
\* that has returned, the result equals "the callback thread took an ACK off
\* the response queue and finished dispatching it, or invoked this call's
\* callback, while the call was still blocked in wait()".
C6_SyncTrueIffAckDispatched ==
    \A c \in Callers :
        calls[c].pc = "returned" => (calls[c].result <=> calls[c].ack_done)

\* C7: a command accepted by send_command while the transport was down (no
\* open handle, or the device gone) is never taken off the command queue and
\* discarded: it is still queued, or it has been written.
C7_CommandsNeverDiscarded ==
    \A i \in DOMAIN cmds :
        cmds[i].down => cmds[i].status \in {"queued", "written"}

\* C8: while the manager runs, an iteration of the reader that finds the
\* device unavailable behind an open handle (its read fails) closes the
\* transport and goes on to reopen it.
C8_ReadFailureReconnects ==
    [][(rd.pc = "body" /\ rd'.pc # "body" /\ serial = "open" /\ device = "failed")
          => (serial' # "open" /\ rd'.pc = "reconnect")]_vars

\* C9: the deadline is set 3 s after the moment the transport is opened; a
\* line the reader processes before the deadline that starts with none of the
\* allow-listed prefixes leaves the response queue as it was (the callback
\* thread takes messages from that queue only); a line processed at or after
\* the deadline is appended to the response queue with its classification
\* whenever the queue is not full.
C9_BootGraceFilter ==
    [][/\ (serial # "open" /\ serial' = "open") => ignore_garbage_until' = now + 3
       /\ (rd.pc = "body" /\ rd'.pc = "loop" /\ last_rx'.outcome # "none") =>
            LET line == last_rx'.line IN
            /\ (now < ignore_garbage_until
                /\ \A p \in valid_starts : ~startswith(line, p))
                   => response_queue' = response_queue
            /\ (now >= ignore_garbage_until
                /\ Len(response_queue) < response_queue_maxsize)
                   => response_queue' =
                        Append(response_queue,
                               [type |-> identify_message_type(line),
                                data |-> line])]_vars

\* C9 witness: a line that the filter discarded during the grace period has
\* now, after the deadline, been put on the response queue
C9_Witness ==
    /\ last_rx.outcome = "queued"
    /\ last_rx.line = last_rx.dropped
    /\ last_rx.line = <<"x">>
    /\ now >= ignore_garbage_until
    /\ response_queue # <<>>
    /\ response_queue[Len(response_queue)].data = <<"x">>

\* C10: classification is the total function: exactly "ACK" -> ACK, exactly
\* "ESP32_READY" -> ESP32_READY, exactly "HEARTBEAT_TIMEOUT" ->
\* HEARTBEAT_TIMEOUT, prefix "DEVICE_ID:" -> STATUS_DATA, prefix "DEBUG:" ->
\* DEBUG, every other line -> UNKNOWN; a line gets one type.
C10_ClassificationTable ==
    sample.type \notin {"none", "skipped"} =>
        LET l == sample.line
            exact == l \in {S_ACK, S_ESP32_READY, S_HEARTBEAT_TIMEOUT}
            status == startswith(l, S_DEVICE_ID)
            debug == startswith(l, S_DEBUG)
        IN  /\ l = strip(sample.raw)
            /\ sample.type \in MessageType
            /\ l = S_ACK => sample.type = "ACK"
            /\ l = S_ESP32_READY => sample.type = "ESP32_READY"
            /\ l = S_HEARTBEAT_TIMEOUT => sample.type = "HEARTBEAT_TIMEOUT"
            /\ status => sample.type = "STATUS_DATA"
            /\ debug => sample.type = "DEBUG"
            /\ (~exact /\ ~status /\ ~debug) => sample.type = "UNKNOWN"

\* C10 witness: a line that begins with "ACK" without being "ACK" has been
\* classified, as UNKNOWN
C10_Witness ==
    /\ sample.type = "UNKNOWN"
    /\ startswith(sample.line, S_ACK)
    /\ sample.line # S_ACK

\* C11: when the port cannot be opened, start() raises and leaves _running
\* false and the three loops unstarted; start() on a running manager changes
\* neither _running nor any loop.
C11_StartFailsCleanly ==
    [][/\ (~running /\ serial # "open" /\ device = "failed"
           /\ start_result' # start_result) => start_result' = "raised"
       /\ start_result' = "raised" =>
            /\ ~running'
            /\ rd'.pc = "idle" /\ wr'.pc = "idle" /\ cbt'.pc = "idle"
       /\ (start_result' = "already" /\ start_result # "already") =>
            /\ running /\ running'
            /\ rd' = rd /\ wr' = wr /\ cbt' = cbt]_vars

\* C11 witness: start() has raised against a device that is not there
C11_Witness ==
    /\ start_result = "raised"
    /\ device = "failed"
    /\ ~running
    /\ serial = "none"

(***************************************************************************)
(* DetectionHandler: properties                                            *)
(***************************************************************************)
RECURSIVE Flatten(_)
Flatten(seqs) == IF seqs = <<>> THEN <<>> ELSE Head(seqs) \o Flatten(Tail(seqs))

\* C12: the batches are contiguous slices of the candidate list, in order:
\* put end to end they give the candidate list back (no gap, no frame twice),
\* no batch is empty, and no frame is in two batches.
C12_BatchesPartition ==
    pvp.pc = "batched" =>
        /\ Flatten(batches) = frame_indices
        /\ \A k \in DOMAIN batches : batches[k] # <<>>
        /\ UNION {Range(batches[k]) : k \in DOMAIN batches} = Range(frame_indices)
        /\ \A j, k \in DOMAIN batches :
               j # k => Range(batches[j]) \cap Range(batches[k]) = {}

\* C12 witness: five candidates for two workers: batches of 2, 2 and 1
C12_Witness ==
    /\ pvp.pc = "batched"
    /\ Len(frame_indices) = 5
    /\ max_workers = 2
    /\ Len(batches) = 3
    /\ Len(batches[3]) = 1

\* C13: the number of batches created for a video is at most the configured
\* worker count W.
C13_AtMostWBatches ==
    pvp.pc = "batched" => Len(batches) <= max_workers

\* C14: the candidates are exactly the frames i of [0, total_frames) with
\* i / fps within one second of the timestamp h / fps of a pose hit, each
\* once and in increasing order; for ScenarioB they are the 63 frames within
\* 10 frames of 100, 500 or 900.
C14_CandidateSet ==
    pvp.pc \in {"candidates", "batched"} =>
        /\ Range(frame_indices) =
              {i \in 0..(video.total_frames - 1) :
                  \E h \in video.hits : i - h <= video.fps /\ h - i <= video.fps}
        /\ \A j, k \in DOMAIN frame_indices :
              j < k => frame_indices[j] < frame_indices[k]
        /\ video = ScenarioB =>
              /\ Len(frame_indices) = 63
              /\ Range(frame_indices) = (90..110) \cup (490..510) \cup (890..910)

\* C14 witness: the candidates of ScenarioB have been built
C14_Witness ==
    /\ video = ScenarioB
    /\ pvp.pc = "candidates"
    /\ Len(frame_indices) = 63

\* C15: a batch that has finished holds no model any more, whichever way it
\* finished, and whenever no batch is running the pool holds all of its
\* pre-warmed models.
C15_ModelsAlwaysReturned ==
    /\ \A b \in DOMAIN workers :
           workers[b].pc = "done" => workers[b].model = NoModel
    /\ Running = {} => Range(model_pool) = 1..max_workers

\* C16: a batch that failed in the middle reports the frames it had
\* processed before the failure and the alert counts accumulated over them.
C16_PartialCountsReturned ==
    \A b \in DOMAIN workers :
        workers[b].failed =>
            workers[b].result =
                [frames_processed |-> workers[b].frames_processed,
                 alert_counts |-> workers[b].alert_counts]

RECURSIVE Total(_, _)
Total(f, n) == IF n = 0 THEN 0 ELSE f[n] + Total(f, n - 1)

\* what each batch contributes: its full local counts when it did not fail,
\* what it reported when it did
Contribution(b) ==
    IF workers[b].failed THEN workers[b].result
    ELSE [frames_processed |-> workers[b].frames_processed,
          alert_counts |-> workers[b].alert_counts]

\* C17: the aggregate of a video is the sum of what its batches reported, and
\* every batch that did not fail is in it with its full counts, whether or
\* not a sibling batch failed.
C17_SiblingsKept ==
    pvp.pc = "consolidated" =>
        /\ pvp.aggregate.total_processed_frames =
              Total([b \in DOMAIN workers |-> Contribution(b).frames_processed],
                    Len(workers))
        /\ pvp.aggregate.count =
              Total([b \in DOMAIN workers |-> Contribution(b).alert_counts],
                    Len(workers))

\* C17 witness: the first batch to complete failed after a processed frame,
\* a sibling completed after it with an alert frame, and the aggregate holds
\* the sibling's counts
C17_Witness ==
    /\ pvp.pc = "consolidated"
    /\ \E b, c \in DOMAIN workers :
          /\ workers[b].failed
          /\ workers[b].frames_processed > 0
          /\ ~workers[c].failed
          /\ workers[c].alert_counts > 0
    /\ Head(batch_results) = EmptyResult
    /\ pvp.aggregate.count > 0

FiredAt(code) ==
    {alerts[k].detected_at : k \in {j \in DOMAIN alerts : alerts[j].code = code}}

\* C19: once an alert of a code has fired at t, a video over the threshold
\* evaluated at t' with t < t' < t + cooldown publishes nothing for the code,
\* and one evaluated when every earlier alert is at least the cooldown old
\* publishes one.
C19_CooldownWindow ==
    [][(/\ last_eval'.n # last_eval.n
        /\ last_eval'.total_frames > 0
        /\ meets_threshold(last_eval'.count, last_eval'.total_frames)
        /\ FiredAt(last_eval'.code) # {}) =>
         /\ (\E t \in FiredAt(last_eval'.code) : t < now /\ now < t + alert_cooldown)
               => alerts' = alerts
         /\ (\A t \in FiredAt(last_eval'.code) : now >= t + alert_cooldown)
               => Len(alerts') = Len(alerts) + 1]_vars

\* C20: no two AlertEvents of the same code (of the one camera) are published
\* less than one cooldown apart.
C20_OneAlertPerWindow ==
    \A j, k \in DOMAIN alerts :
        (j < k /\ alerts[j].code = alerts[k].code) =>
            alerts[k].detected_at >= alerts[j].detected_at + alert_cooldown

C22_EscalationReachesDetection ==
    (/\ nv.pc = "returned"
     /\ nv.camera = "active"
     /\ nv.stable
     /\ nv.opened
     /\ nv.frame_count > 0
     /\ Cardinality(nv.detections) * escalation_den
           >= escalation_num * nv.frame_count)
       => /\ Len(triggers) = 1
          /\ triggers[1].detections = nv.detections
          /\ detection_calls = triggers

(***************************************************************************)
(* StatusHandler: properties                                               *)
(***************************************************************************)
\* C23: an iteration of the status loop gives a STATUS command to the serial
\* manager only when the collected snapshot differs from the one of the last
\* STATUS command (the command then carries the collected snapshot), and two
\* consecutive iterations with the same snapshot give at most one.
C23_StatusOnlyOnChange ==
    [][status_tick'.n # status_tick.n =>
         LET sends == Len(status_sent') = Len(status_sent) + 1
             collected == status_tick'.collected
         IN  /\ sends \/ status_sent' = status_sent
             /\ sends =>
                   /\ status_sent'[Len(status_sent')] = status_command(collected)
                   /\ status_sent # <<>> =>
                         status_sent[Len(status_sent)] # status_command(collected)
             /\ (status_tick.n > 0 /\ collected = status_tick.collected) => ~sends
             /\ (status_sent # <<>> /\
                 status_sent[Len(status_sent)] # status_command(collected)) => sends]_vars

\* C23 witness: two iterations in a row collected the same snapshot, with the
\* internet up, and one STATUS command has been sent
C23_Witness ==
    /\ status_tick.n = 2
    /\ status_tick.collected = status_tick.previous
    /\ status_tick.collected.internet_online
    /\ ~status_tick.sent
    /\ Len(status_sent) = 1

\* C24: a heartbeat that is not acknowledged adds one to the failure counter
\* (which restarts at 0 with a critical warning when it reaches max_failures)
\* and an acknowledged one sets the counter to 0.
C24_HeartbeatFailuresCounted ==
    [][beat'.n # beat.n =>
         /\ beat'.success => heartbeat_failures' = 0
         /\ ~beat'.success =>
               IF heartbeat_failures + 1 >= max_failures
               THEN critical_logs' = critical_logs + 1
               ELSE heartbeat_failures' = heartbeat_failures + 1]_vars

(***************************************************************************)
(* SerialManager: acknowledgements, transport transitions, completion      *)
(***************************************************************************)
\* C25: one ACK confirms at most one command: when two send_command_sync
\* calls were pending together, they do not both return True on the strength
\* of the same ACK message (the one whose dispatch set the event of each).
C25_OneAckOneCommand ==
    \A c \in Callers : \A d \in Callers \ {c} :
        (/\ calls[c].pc = "returned" /\ calls[c].result
         /\ calls[d].pc = "returned" /\ calls[d].result)
        => d \notin calls[c].shared

\* C30: send_command_sync returns True only on an ACK received after its own
\* command was written.  An ACK received after the write is dispatched after
\* it, so the claim requires at least this: when the ACK that set the event of
\* a call that returned True was dispatched to it, the command of that call
\* had been written to the transport.
C30_AckAfterWrite ==
    \A c \in Callers :
        (calls[c].pc = "returned" /\ calls[c].result) => calls[c].written

\* C29: a command is reported as sent (callback(True, None), messages_sent
\* incremented) only if the transport wrote its bytes; a write that fails or
\* writes nothing is reported as a failure.
C29_SuccessOnlyIfWritten ==
    \A i \in DOMAIN cmds : cmds[i].ok => cmds[i].status = "written"

\* C27: once stop() has returned and the three loops have exited, the
\* transport is not open (start() is not called again in these runs).
C27_ClosedAfterStop ==
    (/\ stop_pc = "done"
     /\ rd.pc = "exit" /\ wr.pc = "exit" /\ cbt.pc = "exit")
    => serial # "open"

\* C26: the transitions of the handle are mutually exclusive: stop() is never
\* closing the handle while the reader is between dropping it and reopening
\* it, and the writer never performs its write while either of them is in the
\* middle of such a transition.
C26_TransitionsExclusive ==
    [][/\ ~(stop_pc' = "closing" /\ rd'.pc = "reconnect")
       /\ (wr.pc = "write" /\ wr'.pc # "write")
            => (stop_pc # "closing" /\ rd.pc # "reconnect")]_vars

(***************************************************************************)
(* EventBus: subscription changes during a publish                         *)
(***************************************************************************)
\* C28: when the subscriber list of the type of e was changed by subscribe or
\* unsubscribe while publish(e) was in flight, the handlers invoked for e are
\* still those of the list as publish() read it, and the call returns
\* without raising.
C28_SubscriptionChangeHarmless ==
    [][\A e \in DOMAIN pubs :
          (Completes(e) /\ subscribers[pubs[e].type] # pubs[e].snapshot) =>
             /\ TaskHandlers(pubs[e]) = pubs[e].snapshot
             /\ \A i \in DOMAIN pubs[e].tasks : pubs[e].tasks[i].st \in {"ok", "exc"}
             /\ completed'.event_id = e
             /\ completed'.outcome = "returned"]_vars

(***************************************************************************)
(* DetectionHandler: the model instances                                   *)
(***************************************************************************)
\* C31: no model instance is used by two frame batches at the same time: two
\* batches that are in their frame loops never hold the same model, the main
\* model of the handler included.
C31_ModelsExclusive ==
    \A b \in Running : \A c \in Running \ {b} :
        workers[b].model # workers[c].model

(***************************************************************************)
(* StatusHandler: what the peer has been told                              *)
(***************************************************************************)
\* C32: an iteration of the status loop whose collected snapshot differs from
\* the last snapshot the peer acknowledged (none has been acknowledged yet,
\* or another one was) gives a STATUS command to the serial manager.
C32_SendsUntilAcked ==
    [][status_tick'.n # status_tick.n =>
         ((~status_tick.acked \/ status_tick'.collected # status_tick.acked_status)
            => status_tick'.sent)]_vars

(***************************************************************************)
(* SerialManager: the dispatch of messages to callbacks                    *)
(***************************************************************************)
\* C33: a callback that stays registered for a type is invoked for every
\* dispatched message of that type: when the dispatch of an ACK ends, every
\* ack_callback that was registered when the message was dequeued and is
\* still registered (its call has not returned) has been invoked for it.
C33_RegisteredCallbackInvoked ==
    [][(cbt.pc = "dispatch" /\ cbt'.pc = "loop") =>
         \A c \in cbt.waiting :
             calls[c].pc \in {"waiting", "woken"} => c \in cbt.called]_vars

(***************************************************************************)
(* EventBus: history and dispatch                                          *)
(***************************************************************************)
\* the steps in which a handler of event e starts running with it
Starts(e) ==
    /\ pubs[e].pc = "gather"
    /\ \E i \in DOMAIN pubs[e].tasks :
          pubs[e].tasks[i].st = "pending" /\ pubs'[e].tasks[i].st = "running"
InHistory(e) == \E k \in DOMAIN event_history : event_history[k].event_id = e

\* C34 as stated: at the moment a handler starts running with e, e is
\* present in the history.
C34_InHistoryAtStart ==
    [][\A e \in DOMAIN pubs : Starts(e) => InHistory(e)]_vars

\* C34, amended: publish(e) appends e to the history in the step that creates
\* the tasks of e, before any of them runs; when a handler starts running
\* with e, e is in the history unless max_history or more events published
\* after e have pushed it out, the history then holding newer events only.
C34_AppendedBeforeDispatch ==
    [][\A e \in DOMAIN pubs :
          /\ (pubs[e].pc = "none" /\ pubs'[e].pc = "gather") =>
                /\ event_history' # <<>>
                /\ Newest(event_history').event_id = e
                /\ \A i \in DOMAIN pubs'[e].tasks : pubs'[e].tasks[i].st = "pending"
          /\ Starts(e) =>
                \/ InHistory(e)
                \/ /\ Len(event_history) = max_history
                   /\ \A k \in DOMAIN event_history : event_history[k].event_id > e]_vars

\* C34 witness: a handler is running with an event that is in the history
\* behind a newer event, published while it was in flight
C34_Witness ==
    \E e \in InFlight :
        /\ \E i \in DOMAIN pubs[e].tasks : pubs[e].tasks[i].st = "running"
        /\ InHistory(e)
        /\ Newest(event_history).event_id > e

(***************************************************************************)
(* SerialManager: the temporary callback of send_command_sync              *)
(***************************************************************************)
\* C35: the ack_callback of a send_command_sync call is registered for ACK
\* exactly while the call is in progress: once the call has returned, after
\* an ACK or after the timeout, its callback is no longer in the list, and
\* the list holds, once each, the callbacks of the calls still in progress.
C35_TemporaryCallbackRemoved ==
    /\ \A c \in Callers :
          InList(callbacks["ACK"], c) <=> calls[c].pc \in {"waiting", "woken"}
    /\ Len(callbacks["ACK"]) = Cardinality(Range(callbacks["ACK"]))

\* C35 witness: one call has returned True and the other after its timeout,
\* and no callback is left registered for ACK
C35_Witness ==
    /\ callbacks["ACK"] = <<>>
    /\ \E c \in Callers : \E d \in Callers \ {c} :
          /\ calls[c].pc = "returned" /\ calls[c].result
          /\ calls[d].pc = "returned" /\ ~calls[d].got_ack

(***************************************************************************)
(* SerialManager: callbacks that raise                                     *)
(***************************************************************************)
\* the step that ends the dispatch of the message in hand
RoundEnds == cbt.pc = "dispatch" /\ cbt'.pc = "loop"

\* C36: for each message taken from the response queue, every callback
\* registered for its type is invoked, also after an earlier callback for the
\* message raised (the ack_callbacks registered when the message was taken
\* and still registered, and every callback of the other types), and the
\* callback thread stays in its loop.
C36_AllCallbacksDespiteErrors ==
    [][RoundEnds =>
          /\ cbt.msg.type # "ACK" =>
                Range(callbacks[cbt.msg.type]) \subseteq cbt.called
          /\ cbt.msg.type = "ACK" =>
                \A c \in cbt.waiting :
                    calls[c].pc \in {"waiting", "woken"} => c \in cbt.called
          /\ cbt'.pc = "loop"]_vars

(***************************************************************************)
(* SerialManager: the writer                                               *)
(***************************************************************************)
\* number of newlines at the end of a text, and the text without them
RECURSIVE TrailingNewlines(_)
TrailingNewlines(s) ==
    IF s # <<>> /\ s[Len(s)] = "\n"
    THEN 1 + TrailingNewlines(SubSeq(s, 1, Len(s) - 1)) ELSE 0
Stem(s) == SubSeq(s, 1, Len(s) - TrailingNewlines(s))

\* the commands whose bytes the writer handed to the transport
Sent == {i \in Taken : cmds[i].status # "not_open"}

\* the writer takes the commands in the order of send_command, one per
\* iteration, and calls the callback of each taken command exactly once
InOrderOnce ==
    /\ \A i \in Taken : \A j \in DOMAIN cmds : j < i => j \in Taken
    /\ \A i \in Taken : cmds[i].order = i
    /\ \A i \in DOMAIN cmds :
          cmds[i].invocations = IF i \in Taken /\ cmds[i].callback THEN 1 ELSE 0

\* C37 as stated: commands go out in the order of send_command, one at a
\* time, each ending with exactly one newline, the callback of each taken
\* command called exactly once.
C37_OrderedOneNewline ==
    /\ InOrderOnce
    /\ \A i \in Sent : TrailingNewlines(cmds[i].bytes) = 1

\* C37, amended: commands go out in the order of send_command, one at a
\* time, the callback of each taken command called exactly once; the bytes
\* of a command are the command itself when it ends with a newline and the
\* command followed by one newline when it does not, so they end with as
\* many newlines as the command has, and with one when it has none.
C37_OrderedNewlineIfAbsent ==
    /\ InOrderOnce
    /\ \A i \in Sent :
          /\ Stem(cmds[i].bytes) = Stem(cmds[i].text)
          /\ TrailingNewlines(cmds[i].bytes) =
                Max(1, TrailingNewlines(cmds[i].text))

\* C37 witness: two commands have gone out in order, the first without a
\* newline of its own and with a callback, the second with its own newline
C37_Witness ==
    /\ Len(cmds) >= 2
    /\ {1, 2} \subseteq Sent
    /\ cmds[1].text = <<"S">> /\ cmds[1].bytes = <<"S", "\n">>
    /\ cmds[1].callback /\ cmds[1].invocations = 1
    /\ cmds[2].text = <<"S", "\n">> /\ cmds[2].bytes = <<"S", "\n">>

\* C38: the response queue never holds more than response_queue_maxsize
\* messages; an iteration of the reader that begins with the queue full
\* leaves the queued messages as they are, in their order (the line it read
\* is discarded, or was filtered, or there was none), and ends back at the
\* loop test or in the reconnect in that one step, whatever the
\* callback-dispatch loop is doing.
C38_FullQueueDropsNewest ==
    /\ Len(response_queue) <= response_queue_maxsize
    /\ [][/\ Len(response_queue') <= response_queue_maxsize
          /\ (rd.pc = "body" /\ rd' # rd
                /\ Len(response_queue) = response_queue_maxsize)
             => /\ response_queue' = response_queue
                /\ rd'.pc \in {"loop", "reconnect"}
                /\ last_rx'.outcome \in {"full", "filtered", "none"}
                /\ last_rx'.outcome = "full" => last_rx'.line # <<>>]_vars

\* C38 witness: with the queue full and the callback-dispatch loop not at
\* work on a message, the reader has discarded a line and is back at its
\* loop test
C38_Witness ==
    /\ Len(response_queue) = response_queue_maxsize
    /\ last_rx.outcome = "full"
    /\ rd.pc = "loop"
    /\ cbt.pc # "dispatch"

\* the three loops have ended
LoopsEnded == rd.pc = "exit" /\ wr.pc = "exit" /\ cbt.pc = "exit"

\* C39: once stop() has cleared the running flag, no loop begins another
\* iteration (a loop at its test leaves; a loop inside an iteration finishes
\* it, the reconnect of the reader included, and then leaves), and under the
\* fair scheduling of the threads all three loops end, whatever the state of
\* the handle, the device and the queues.
C39_LoopsEndAfterStop ==
    /\ [][stop_pc' # "idle" =>
            /\ (rd' # rd /\ rd.pc = "loop") => rd'.pc = "exit"
            /\ (wr' # wr /\ wr.pc = "loop") => wr'.pc = "exit"
            /\ (cbt' # cbt /\ cbt.pc = "loop") => cbt'.pc = "exit"
            /\ rd.pc = "exit" => rd'.pc = "exit"
            /\ wr.pc = "exit" => wr'.pc = "exit"
            /\ cbt.pc = "exit" => cbt'.pc = "exit"]_vars
    /\ (stop_pc # "idle") ~> LoopsEnded

\* C39 witness: stop() returned while the reader was inside an iteration,
\* the reader then went through a reconnect (the handle stop() closed is
\* open again), and the three loops have ended with both queues empty
C39_Witness ==
    /\ stop_pc = "done"
    /\ LoopsEnded
    /\ serial = "open"
    /\ command_queue = <<>>
    /\ response_queue = <<>>

\* C40: for every limit >= 0, get_event_history(limit) has at most limit
\* entries and is the min(limit, size) newest entries of the history in
\* publish order; for limit = 0 it is the empty list.
C40_HistoryLimit ==
    \A limit \in 0..(max_history + 1) :
        LET got == get_event_history(limit)
            size == Len(event_history)
            n == Min(limit, size)
        IN  /\ Len(got) <= limit
            /\ got = SubSeq(event_history, size - n + 1, size)
            /\ limit = 0 => got = <<>>
====
